---------------------------- MODULE Spec2Model ----------------------------
(***************************************************************************)
(* Fan-out relay engine of the ESP32 NTRIP Duo firmware.                   *)
(*                                                                         *)
(*  - the two caster uplinks (ntrip_server.c, tag SRV, and                 *)
(*    ntrip_server_2.c, tag SRV2): the dispatch callback, the connection   *)
(*    worker and the keep-alive worker of each, interleaved at their       *)
(*    accesses to shared state (event group, socket handle, silence        *)
(*    counter, task suspension);                                           *)
(*  - the socket server (socket_server.c): the peer table and one loop     *)
(*    iteration's accept, datagram, read, clean-up and broadcast steps,    *)
(*    and the calls that start and stop the server;                        *)
(*  - the socket client (socket_client.c): the task that keeps one         *)
(*    outbound connection, its backoff, and the calls that start and stop  *)
(*    it.                                                                  *)
(***************************************************************************)
EXTENDS Integers, Sequences, FiniteSets, TLC

(***************************************************************************)
(* Bounds of the model.                                                    *)
(***************************************************************************)
\* the silence counter is not advanced beyond this many decay steps
MaxKeepAliveSteps == 11
\* the retry level saturates here (the delay has reached its cap)
MaxRetryLevel == 1
\* stream peers that connect to the socket server, each once
MaxTcpPeers == 11
\* datagrams the datagram peers send in all
MaxDatagrams == 3
\* datagrams that can wait in the datagram socket's queue
MaxQueue == 2
\* peer events (data, close, read error, send failure) in all
MaxPeerEvents == 1
\* chunks of the serial source the socket server broadcasts in all
MaxBroadcasts == 1
\* adverse events the socket client meets in all (failed resolves, failed
\* socket() and connect() calls, receive errors, closes by the peer, failed
\* sends, losses of the network)
MaxClientEvents == 6
\* chunks the socket client receives or sends in all
MaxClientData == 1
\* time(NULL) is not advanced beyond this many seconds
MaxClientTime == 2
\* calls of socket_client_init in all
MaxClientCalls == 2
\* calls of socket_server_init in all
MaxServerCalls == 2
\* chunks of the source that are followed by number
MaxChunks == 5

(***************************************************************************)
(* Program constants.                                                      *)
(***************************************************************************)
\* socket_client.c: first and largest delay between connection attempts
RECONNECT_DELAY_MS == 5000
MAX_RECONNECT_DELAY_MS == 60000
\* ntrip.h (not among the sources): silence threshold in milliseconds
NTRIP_KEEP_ALIVE_THRESHOLD == 10000

CASTER_READY_BIT == "CASTER_READY"
DATA_READY_BIT == "DATA_READY"
DATA_SENT_BIT == "DATA_SENT"

\* the two uplink instances, named by the tag of their status announcements
Uplinks == {"SRV", "SRV2"}

\* per-endpoint configuration read at each connection attempt
Config(u) ==
    IF u = "SRV"
    THEN [host |-> "caster.example.com", port |-> 2101,
          password |-> "secret", mountpoint |-> "TEST"]
    ELSE [host |-> "caster2.example.com", port |-> 2102,
          password |-> "secret2", mountpoint |-> "TEST2"]

NTRIP_SERVER_NAME == "ESP32-XBee"

MAX_CLIENTS == 10

VARIABLES
    enabled,          \* uplinks whose ACTIVE configuration flag is set
    handlers,         \* registered dispatch callbacks, in registration order
    wpc,              \* position of each uplink worker (ntrip_server_task)
    spc,              \* position of each keep-alive worker
    sleep_suspended,  \* whether the keep-alive worker is suspended
    event_bits,       \* server_event_group
    sock,             \* the uplink's socket handle, -1 when none
    sock_open,        \* the handles the uplink has open
    sock_mutex,       \* holder of sock_mutex
    data_keep_alive,  \* silence counter (ms)
    ka_reg,           \* value the keep-alive worker read for its increment
    retry,            \* retry level of delay_handle
    sock_first,       \* first data written to the current socket
    nmea,             \* announcements of the current loop iteration
    response,         \* what the caster answered in the current iteration
    data_timeout,     \* the keep-alive worker cleared DATA_READY and no chunk
                      \* has reached the callback since
    dpc,              \* position of the dispatch thread
    dcur,             \* index in handlers of the callback being run
    hbits,            \* event_bits snapshot of the running callback
    hres,             \* what each callback did with the current chunk
    chunk_no,         \* the number of the chunk in dispatch (of the last one
                      \* when none is): the first MaxChunks chunks are numbered
                      \* from 1; -1 when the chunks are not numbered
    written,          \* the numbers of the chunks written to the uplink's
                      \* sockets, in the order of the writes
    unready,          \* the numbers of the chunks that arrived with
                      \* CASTER_READY clear
    ready_at,         \* how many numbered chunks had been written when
                      \* CASTER_READY was last set
    cfg_strings       \* the configuration strings the worker's locals host,
                      \* password and mountpoint hold allocated

uplinkVars == <<enabled, handlers, wpc, spc, sleep_suspended, event_bits, sock, sock_open,
                sock_mutex, data_keep_alive, ka_reg, retry, sock_first, nmea,
                response, data_timeout, dpc, dcur, hbits, hres, chunk_no,
                written, unready, ready_at, cfg_strings>>

VARIABLES
    clients,            \* the peer table clients[MAX_CLIENTS]
    tcp_server_socket,  \* the listening stream socket, -1 when none
    udp_server_socket,  \* the datagram socket, -1 when none
    open_fds,           \* the descriptors that are open
    backlog,            \* the peer whose connection waits for accept(), 0 when none
    tcp_next,           \* the next stream peer to connect
    udp_queue,          \* the datagrams queued on the datagram socket
    srv_pc,             \* position of socket_server_task
    read_fds,           \* the descriptors select() reported readable
    dgram,              \* the datagram recvfrom() took in this iteration
    uart_rx,            \* bytes written to the serial sink by the server
    dgrams_sent,        \* datagrams the peers have sent
    events_used,        \* peer events (data, close, error, send failure) so far
    broadcasts          \* chunks of the source broadcast so far

serverVars == <<clients, tcp_server_socket, udp_server_socket, open_fds, backlog,
                tcp_next, udp_queue, srv_pc, read_fds, dgram, uart_rx,
                dgrams_sent, events_used, broadcasts>>

VARIABLES
    server_running,     \* the socket server's running flag
    clients_mutex,      \* the table lock: "NULL", "valid", or "deleted" (deleted, handle kept)
    init_call,          \* the last call of socket_server_init: enabled or not, and what it returned
    srv_calls,          \* calls of socket_server_init so far
    deinit_pc           \* "delay" while socket_server_deinit waits before it deletes the lock

lifeVars == <<server_running, clients_mutex, init_call, srv_calls, deinit_pc>>

VARIABLES
    client_running,     \* the socket client's running flag
    cpc,                \* where the client task stands, "none" when there is none
    client_socket,      \* the client's socket handle, -1 when none
    connected,          \* the client's connected flag
    reconnect_delay,    \* socket_client_connect's local delay
    cl_fail,            \* which call of the last attempt failed
    client_stats,       \* the client's statistics
    client_open,        \* the descriptors the client has open
    client_cfg,         \* the configuration the running client reads
    cinit,              \* what the last call of socket_client_init returned
    wifi_connected,     \* the station is associated
    now,                \* time(NULL)
    cl_events,          \* adverse events so far
    cl_data,            \* chunks received or sent so far
    cl_calls,           \* calls of socket_client_init so far
    prev_delay,         \* the delay applied after the previous failed attempt
                        \* of this run of failures, 0 when there was none
    send_ret,           \* what the last call of socket_client_send_uart_data
                        \* returned, "none" before the first
    wire,               \* what send() has accepted on the client's latest
                        \* connection, in order
    cpc_other           \* position of a second socket_client_task, "none"
                        \* when there is none; cpc is then the position of
                        \* the task that is scheduled

clientVars == <<client_running, cpc, client_socket, connected, reconnect_delay,
                cl_fail, client_stats, client_open, client_cfg, cinit,
                wifi_connected, now, cl_events, cl_data, cl_calls, prev_delay,
                send_ret, wire, cpc_other>>

vars == <<uplinkVars, serverVars, lifeVars, clientVars>>


(***************************************************************************)
(* Helpers shared by the uplink code (util.c, retry.c: not among the       *)
(* sources; modelled from the specification's description of them).       *)
(***************************************************************************)
\* destroy_socket(&sock): shut down and close the handle, leave -1
destroy_socket(s) == -1

\* the handle connect_socket returns on success
NewSocket == 1

\* connect_socket on success, with the handles in open still open: the
\* lowest handle that is free
OpenSocket(open) == IF NewSocket \in open THEN NewSocket + 1 ELSE NewSocket

\* destroy_socket(&sock): the handles that stay open
DestroyedHandle(open, s) == open \ {s}

\* retry_delay: apply the current delay, then raise the level (capped)
retry_delay(level) == IF level < MaxRetryLevel THEN level + 1 ELSE level

\* retry_reset: back to the minimum delay
retry_reset(level) == 0

\* what the caster may answer to the SOURCE request: nothing (read fails or
\* the peer closed), bytes with no status line, or a status line
Responses == {"", "garbage", "ICY 200 OK", "HTTP/1.1 401 Unauthorized"}

\* extract_http_header(buffer, ""): the status of the first line, "NULL"
\* when the response has no status line
extract_http_header(r) ==
    CASE r = "ICY 200 OK" -> "200 OK"
      [] r = "HTTP/1.1 401 Unauthorized" -> "401 Unauthorized"
      [] OTHER -> "NULL"

\* ntrip_response_ok(status): the whitelist of OK statuses
ntrip_response_ok(status) == status \in {"200 OK", "OK"}

(***************************************************************************)
(* The uplink worker, ntrip_server_task.                                   *)
(***************************************************************************)
\* the SOURCE request built by snprintf
SourceRequest(u) ==
    <<"SOURCE", Config(u).password, Config(u).mountpoint,
      "Source-Agent", NTRIP_SERVER_NAME, "">>

\* an announcement that carries the tag of the other uplink
AnnounceOther(u, kind) ==
    Append(nmea[u], <<"$PESP", "NTRIP", CHOOSE v \in Uplinks : v # u, kind>>)

\* uart_nmea("$PESP,NTRIP,<tag>,<kind>...")
Announce(u, kind) == Append(nmea[u], <<"$PESP", "NTRIP", u, kind>>)

\* xEventGroupWaitBits(server_event_group, DATA_READY_BIT, xClearOnExit, ...)
WaitClearOnExit == TRUE

\* the bits the worker clears when it handles a disconnect
DisconnectClears == {CASTER_READY_BIT, DATA_SENT_BIT}

\* start-up of the task: event group, socket lock, callback registration,
\* keep-alive worker, working buffer
WorkerStart(u) ==
    /\ wpc[u] = "init"
    /\ \E mutexOk \in BOOLEAN, bufferOk \in BOOLEAN :
         IF ~mutexOk
         THEN /\ wpc' = [wpc EXCEPT ![u] = "dead"]
              /\ UNCHANGED <<handlers, spc>>
         ELSE /\ handlers' = Append(handlers, u)
              /\ spc' = [spc EXCEPT ![u] = "start"]
              /\ wpc' = [wpc EXCEPT ![u] = IF bufferOk THEN "loop" ELSE "dead"]
    /\ UNCHANGED <<data_timeout, response, enabled, cfg_strings, ready_at, chunk_no, written, unready, sock_open, sleep_suspended, event_bits, sock, sock_mutex,
                   data_keep_alive, ka_reg, retry, sock_first, nmea, dpc, dcur,
                   hbits, hres>>
    /\ UNCHANGED <<serverVars, lifeVars, clientVars>>

\* top of the loop: retry_delay, then the data check
WorkerLoop(u) ==
    /\ wpc[u] = "loop"
    /\ retry' = [retry EXCEPT ![u] = retry_delay(retry[u])]
    /\ response' = [response EXCEPT ![u] = "none"]
    /\ IF DATA_READY_BIT \notin event_bits[u]
       THEN /\ nmea' = [nmea EXCEPT ![u] = <<<<"$PESP", "NTRIP", u, "WAITING">>>>]
            /\ wpc' = [wpc EXCEPT ![u] = "wait"]
       ELSE /\ nmea' = [nmea EXCEPT ![u] = <<>>]
            /\ wpc' = [wpc EXCEPT ![u] = "resume_sleep"]
    /\ UNCHANGED <<data_timeout, enabled, cfg_strings, ready_at, chunk_no, written, unready, sock_open, handlers, spc, sleep_suspended, event_bits, sock,
                   sock_mutex, data_keep_alive, ka_reg, sock_first, dpc, dcur,
                   hbits, hres>>
    /\ UNCHANGED <<serverVars, lifeVars, clientVars>>

\* xEventGroupWaitBits: returns at once when the bit is set, blocks otherwise
WorkerWait(u) ==
    /\ wpc[u] = "wait"
    /\ IF DATA_READY_BIT \in event_bits[u]
       THEN /\ event_bits' = [event_bits EXCEPT ![u] =
                  IF WaitClearOnExit THEN @ \ {DATA_READY_BIT} ELSE @]
            /\ wpc' = [wpc EXCEPT ![u] = "resume_sleep"]
       ELSE /\ wpc' = [wpc EXCEPT ![u] = "blocked"]
            /\ UNCHANGED event_bits
    /\ UNCHANGED <<data_timeout, response, enabled, cfg_strings, ready_at, chunk_no, written, unready, sock_open, handlers, spc, sleep_suspended, sock, sock_mutex,
                   data_keep_alive, ka_reg, retry, sock_first, nmea, dpc, dcur,
                   hbits, hres>>
    /\ UNCHANGED <<serverVars, lifeVars, clientVars>>

\* vTaskResume(sleep_task); wait_for_ip()
WorkerResumeSleep(u) ==
    /\ wpc[u] = "resume_sleep"
    /\ sleep_suspended' = [sleep_suspended EXCEPT ![u] = FALSE]
    /\ wpc' = [wpc EXCEPT ![u] = "connect"]
    /\ UNCHANGED <<data_timeout, response, enabled, cfg_strings, ready_at, chunk_no, written, unready, sock_open, handlers, spc, event_bits, sock, sock_mutex,
                   data_keep_alive, ka_reg, retry, sock_first, nmea, dpc, dcur,
                   hbits, hres>>
    /\ UNCHANGED <<serverVars, lifeVars, clientVars>>

\* the three strings config_get_str_blob_alloc allocates for an attempt
ConfigStrings == {"host", "password", "mountpoint"}

\* what the three allocations of an attempt can leave allocated: every
\* string, none, or some of them
AllocOutcomes == {ConfigStrings, {}, {"host"}, {"host", "mountpoint"}}

\* an _error that does not release the mountpoint
FreeStringsButMountpoint(held) == held \cap {"mountpoint"}

\* if (host) free(host); if (mountpoint) free(mountpoint);
\* if (password) free(password): the strings that stay allocated
FreeStrings(held) == {}

\* configuration strings, CONNECTING announcement, connect_socket
WorkerConnect(u) ==
    /\ wpc[u] = "connect"
    /\ \E outcome \in {"alloc_failed", "resolve_failed", "connect_failed", "connected"} :
         /\ \E got \in AllocOutcomes :
               /\ (outcome = "alloc_failed") = (got # ConfigStrings)
               /\ cfg_strings' = [cfg_strings EXCEPT ![u] = got]
         /\ nmea' = [nmea EXCEPT ![u] =
               IF outcome = "alloc_failed" THEN @ ELSE Announce(u, "CONNECTING")]
         /\ sock' = [sock EXCEPT ![u] =
               CASE outcome = "alloc_failed" -> @
                 [] outcome = "connected" -> OpenSocket(sock_open[u])
                 [] OTHER -> -1]
         /\ sock_open' = [sock_open EXCEPT ![u] =
               IF outcome = "connected" THEN @ \cup {OpenSocket(@)} ELSE @]
         /\ sock_first' = [sock_first EXCEPT ![u] =
               IF outcome = "connected" THEN <<>> ELSE @]
         /\ wpc' = [wpc EXCEPT ![u] =
               IF outcome = "connected" THEN "request" ELSE "error"]
    /\ UNCHANGED <<data_timeout, response, enabled, ready_at, chunk_no, written, unready, handlers, spc, sleep_suspended, event_bits,
                   sock_mutex, data_keep_alive, ka_reg, retry, dpc, dcur, hbits,
                   hres>>
    /\ UNCHANGED <<serverVars, lifeVars, clientVars>>

\* write(sock, buffer, strlen(buffer)) of the SOURCE request
WorkerRequest(u) ==
    /\ wpc[u] = "request"
    /\ \E sent \in BOOLEAN :
         IF sent /\ sock[u] >= 0
         THEN /\ sock_first' = [sock_first EXCEPT ![u] =
                    IF @ = <<>> THEN SourceRequest(u) ELSE @]
              /\ wpc' = [wpc EXCEPT ![u] = "response"]
         ELSE /\ wpc' = [wpc EXCEPT ![u] = "error"]
              /\ UNCHANGED sock_first
    /\ UNCHANGED <<data_timeout, response, enabled, cfg_strings, ready_at, chunk_no, written, unready, sock_open, handlers, spc, sleep_suspended, event_bits, sock,
                   sock_mutex, data_keep_alive, ka_reg, retry, nmea, dpc, dcur,
                   hbits, hres>>
    /\ UNCHANGED <<serverVars, lifeVars, clientVars>>

\* an acceptance test that forgets the status whitelist
HandshakeOkAnyStatus(r) == r # ""

\* the checks on the caster's answer: read() returned bytes, the answer has a
\* status line, and the status is a recognized OK value
HandshakeOk(r) ==
    /\ r # ""
    /\ extract_http_header(r) # "NULL"
    /\ ntrip_response_ok(extract_http_header(r))

\* read(sock, ...), extract_http_header, ntrip_response_ok
WorkerResponse(u) ==
    /\ wpc[u] = "response"
    /\ \E r \in Responses :
         LET got == IF sock[u] < 0 THEN "" ELSE r IN
         /\ response' = [response EXCEPT ![u] = got]
         /\ wpc' = [wpc EXCEPT ![u] = IF HandshakeOk(got) THEN "announce" ELSE "error"]
    /\ UNCHANGED <<data_timeout, enabled, cfg_strings, ready_at, chunk_no, written, unready, sock_open, handlers, spc, sleep_suspended, event_bits, sock,
                   sock_mutex, data_keep_alive, ka_reg, retry, sock_first, nmea,
                   dpc, dcur, hbits, hres>>
    /\ UNCHANGED <<serverVars, lifeVars, clientVars>>

\* uart_nmea("$PESP,NTRIP,<tag>,CONNECTED,...")
WorkerAnnounce(u) ==
    /\ wpc[u] = "announce"
    /\ nmea' = [nmea EXCEPT ![u] = Announce(u, "CONNECTED")]
    /\ wpc' = [wpc EXCEPT ![u] = "reset"]
    /\ UNCHANGED <<data_timeout, response, enabled, cfg_strings, ready_at, chunk_no, written, unready, sock_open, handlers, spc, sleep_suspended, event_bits, sock,
                   sock_mutex, data_keep_alive, ka_reg, retry, sock_first, dpc,
                   dcur, hbits, hres>>
    /\ UNCHANGED <<serverVars, lifeVars, clientVars>>

\* retry_reset(delay_handle)
WorkerReset(u) ==
    /\ wpc[u] = "reset"
    /\ retry' = [retry EXCEPT ![u] = retry_reset(retry[u])]
    /\ wpc' = [wpc EXCEPT ![u] = "ready"]
    /\ UNCHANGED <<data_timeout, response, enabled, cfg_strings, ready_at, chunk_no, written, unready, sock_open, handlers, spc, sleep_suspended, event_bits, sock,
                   sock_mutex, data_keep_alive, ka_reg, sock_first, nmea, dpc,
                   dcur, hbits, hres>>
    /\ UNCHANGED <<serverVars, lifeVars, clientVars>>

\* xEventGroupSetBits(server_event_group, CASTER_READY_BIT)
WorkerReady(u) ==
    /\ wpc[u] = "ready"
    /\ event_bits' = [event_bits EXCEPT ![u] = @ \cup {CASTER_READY_BIT}]
    /\ ready_at' = [ready_at EXCEPT ![u] = Len(written[u])]
    /\ wpc' = [wpc EXCEPT ![u] = "suspend"]
    /\ UNCHANGED <<data_timeout, response, enabled, cfg_strings, chunk_no, written, unready, sock_open, handlers, spc, sleep_suspended, sock, sock_mutex,
                   data_keep_alive, ka_reg, retry, sock_first, nmea, dpc, dcur,
                   hbits, hres>>
    /\ UNCHANGED <<serverVars, lifeVars, clientVars>>

\* vTaskSuspend(NULL): parked until the callback resumes the task
WorkerSuspend(u) ==
    /\ wpc[u] = "suspend"
    /\ wpc' = [wpc EXCEPT ![u] = "parked"]
    /\ UNCHANGED <<data_timeout, response, enabled, cfg_strings, ready_at, chunk_no, written, unready, sock_open, handlers, spc, sleep_suspended, event_bits, sock,
                   sock_mutex, data_keep_alive, ka_reg, retry, sock_first, nmea,
                   dpc, dcur, hbits, hres>>
    /\ UNCHANGED <<serverVars, lifeVars, clientVars>>

\* after the resume: clear the bits, DISCONNECTED announcement
WorkerDisconnect(u) ==
    /\ wpc[u] = "woken"
    /\ event_bits' = [event_bits EXCEPT ![u] = @ \ DisconnectClears]
    /\ nmea' = [nmea EXCEPT ![u] = Announce(u, "DISCONNECTED")]
    /\ wpc' = [wpc EXCEPT ![u] = "error"]
    /\ UNCHANGED <<data_timeout, response, enabled, cfg_strings, ready_at, chunk_no, written, unready, sock_open, handlers, spc, sleep_suspended, sock, sock_mutex,
                   data_keep_alive, ka_reg, retry, sock_first, dpc, dcur, hbits,
                   hres>>
    /\ UNCHANGED <<serverVars, lifeVars, clientVars>>

\* _error: vTaskSuspend(sleep_task); destroy_socket(&sock); free the strings
WorkerError(u) ==
    /\ wpc[u] = "error"
    /\ sleep_suspended' = [sleep_suspended EXCEPT ![u] = TRUE]
    /\ sock' = [sock EXCEPT ![u] = destroy_socket(@)]
    /\ sock_open' = [sock_open EXCEPT ![u] = DestroyedHandle(@, sock[u])]
    /\ cfg_strings' = [cfg_strings EXCEPT ![u] = FreeStrings(@)]
    /\ wpc' = [wpc EXCEPT ![u] = "loop"]
    /\ UNCHANGED <<data_timeout, response, enabled, ready_at, chunk_no, written, unready, handlers, spc, event_bits, sock_mutex,
                   data_keep_alive, ka_reg, retry, sock_first, nmea, dpc, dcur,
                   hbits, hres>>
    /\ UNCHANGED <<serverVars, lifeVars, clientVars>>

(***************************************************************************)
(* The keep-alive worker, ntrip_server_sleep_task.                         *)
(***************************************************************************)
\* one decay step of the silence counter
KeepAliveStep == NTRIP_KEEP_ALIVE_THRESHOLD \div 10

\* the test that decides to clear DATA_READY
KeepAliveExpired(counter) == counter = NTRIP_KEEP_ALIVE_THRESHOLD

\* vTaskSuspend(NULL) at the start of the task
SleepStart(u) ==
    /\ spc[u] = "start"
    /\ ~sleep_suspended[u]
    /\ sleep_suspended' = [sleep_suspended EXCEPT ![u] = TRUE]
    /\ spc' = [spc EXCEPT ![u] = "check"]
    /\ UNCHANGED <<data_timeout, response, enabled, cfg_strings, ready_at, chunk_no, written, unready, sock_open, handlers, wpc, event_bits, sock, sock_mutex,
                   data_keep_alive, ka_reg, retry, sock_first, nmea, dpc, dcur,
                   hbits, hres>>
    /\ UNCHANGED <<serverVars, lifeVars, clientVars>>

\* if (data_keep_alive == NTRIP_KEEP_ALIVE_THRESHOLD)
SleepCheck(u) ==
    /\ spc[u] = "check"
    /\ ~sleep_suspended[u]
    /\ spc' = [spc EXCEPT ![u] =
          IF KeepAliveExpired(data_keep_alive[u]) THEN "clear" ELSE "load"]
    /\ UNCHANGED <<data_timeout, response, enabled, cfg_strings, ready_at, chunk_no, written, unready, sock_open, handlers, wpc, sleep_suspended, event_bits, sock,
                   sock_mutex, data_keep_alive, ka_reg, retry, sock_first, nmea,
                   dpc, dcur, hbits, hres>>
    /\ UNCHANGED <<serverVars, lifeVars, clientVars>>

\* xEventGroupClearBits(server_event_group, DATA_READY_BIT)
SleepClear(u) ==
    /\ spc[u] = "clear"
    /\ ~sleep_suspended[u]
    /\ event_bits' = [event_bits EXCEPT ![u] = @ \ {DATA_READY_BIT}]
    /\ spc' = [spc EXCEPT ![u] = "load"]
    /\ data_timeout' = [data_timeout EXCEPT ![u] = TRUE]
    /\ UNCHANGED <<response, enabled, cfg_strings, ready_at, chunk_no, written, unready, sock_open, handlers, wpc, sleep_suspended, sock, sock_mutex,
                   data_keep_alive, ka_reg, retry, sock_first, nmea, dpc, dcur,
                   hbits, hres>>
    /\ UNCHANGED <<serverVars, lifeVars, clientVars>>

\* data_keep_alive += step, first half: the read of the unprotected counter
SleepLoad(u) ==
    /\ spc[u] = "load"
    /\ ~sleep_suspended[u]
    /\ data_keep_alive[u] < MaxKeepAliveSteps * KeepAliveStep
    /\ ka_reg' = [ka_reg EXCEPT ![u] = data_keep_alive[u]]
    /\ spc' = [spc EXCEPT ![u] = "store"]
    /\ UNCHANGED <<data_timeout, response, enabled, cfg_strings, ready_at, chunk_no, written, unready, sock_open, handlers, wpc, sleep_suspended, event_bits, sock,
                   sock_mutex, data_keep_alive, retry, sock_first, nmea, dpc,
                   dcur, hbits, hres>>
    /\ UNCHANGED <<serverVars, lifeVars, clientVars>>

\* data_keep_alive += step, second half: the write; then vTaskDelay
SleepStore(u) ==
    /\ spc[u] = "store"
    /\ ~sleep_suspended[u]
    /\ data_keep_alive' = [data_keep_alive EXCEPT ![u] = ka_reg[u] + KeepAliveStep]
    /\ ka_reg' = [ka_reg EXCEPT ![u] = 0]
    /\ spc' = [spc EXCEPT ![u] = "check"]
    /\ UNCHANGED <<data_timeout, response, enabled, cfg_strings, ready_at, chunk_no, written, unready, sock_open, handlers, wpc, sleep_suspended, event_bits, sock,
                   sock_mutex, retry, sock_first, nmea, dpc, dcur, hbits, hres>>
    /\ UNCHANGED <<serverVars, lifeVars, clientVars>>

(***************************************************************************)
(* Source dispatch and the dispatch callback, ntrip_server_uart_handler.   *)
(***************************************************************************)
\* the uplink whose callback the dispatch thread is running
Cur == handlers[dcur]

\* a callback that forwards whatever its snapshot holds
HandlerForwardsAlways(bits) == TRUE

\* a callback that forwards whenever DATA_SENT is not in its snapshot
HandlerForwardsUnsent(bits) == DATA_SENT_BIT \notin bits

\* the callback forwards the chunk only with CASTER_READY in its snapshot
HandlerForwards(bits) == CASTER_READY_BIT \in bits

\* a write failure that tears down every uplink's socket
WriteFailureDestroysAll(u) == Uplinks

\* the uplinks whose socket a write failure in u's callback tears down
WriteFailureDestroys(u) == {u}

\* what a callback did with the chunk: res is "none" before it ran, then the
\* path it took; bits are the readiness bits at the moment of its write
NoResult == [res |-> "none", bits |-> {}]
Result(u, r) ==
    [res |-> r,
     bits |-> IF r \in {"sent", "failed"}
              THEN event_bits[u] \cap {DATA_READY_BIT, CASTER_READY_BIT}
              ELSE {}]

\* a give that leaves the lock with its holder
GiveNothing(holder) == holder

\* xSemaphoreGive(sock_mutex): the holder of the lock afterwards
xSemaphoreGive(holder) == "free"

\* the number of the chunk that follows chunk n
NextChunk(n) == IF n < 0 \/ n = MaxChunks THEN -1 ELSE n + 1

\* write(sock, buffer, length) of chunk n: the chunks the socket has been given
WrittenChunk(seq, n) == IF n > 0 THEN Append(seq, n) ELSE seq

\* the callback returns: the next registered callback runs, or the dispatch ends
HandlerReturn ==
    IF dcur < Len(handlers)
    THEN /\ dcur' = dcur + 1
         /\ dpc' = "entry"
    ELSE /\ dcur' = 0
         /\ dpc' = "idle"

\* the snapshot is a local of the callback
SnapshotGone == hbits' = {}

\* a chunk arrives from the serial source: every registered callback is run
Dispatch ==
    /\ dpc = "idle"
    /\ Len(handlers) > 0
    /\ dcur' = 1
    /\ dpc' = "entry"
    /\ hres' = [u \in Uplinks |-> NoResult]
    /\ chunk_no' = NextChunk(chunk_no)
    /\ UNCHANGED <<data_timeout, response, enabled, cfg_strings, ready_at, written, unready, sock_open, handlers, wpc, spc, sleep_suspended, event_bits,
                   sock, sock_mutex, data_keep_alive, ka_reg, retry, sock_first,
                   nmea, hbits>>
    /\ UNCHANGED <<serverVars, lifeVars, clientVars>>

\* xEventGroupGetBits; xEventGroupSetBits(DATA_READY_BIT) when it was clear.
\* A worker blocked in xEventGroupWaitBits is unblocked by the set, and its
\* clear-on-exit is applied before the set returns.
HandlerEntry ==
    /\ dpc = "entry"
    /\ hbits' = event_bits[Cur]
    /\ IF DATA_READY_BIT \in event_bits[Cur]
       THEN UNCHANGED <<event_bits, wpc>>
       ELSE IF wpc[Cur] = "blocked"
            THEN /\ wpc' = [wpc EXCEPT ![Cur] = "resume_sleep"]
                 /\ event_bits' = [event_bits EXCEPT ![Cur] =
                       IF WaitClearOnExit THEN @ ELSE @ \cup {DATA_READY_BIT}]
            ELSE /\ event_bits' = [event_bits EXCEPT ![Cur] = @ \cup {DATA_READY_BIT}]
                 /\ UNCHANGED wpc
    /\ dpc' = "keepalive"
    /\ data_timeout' = [data_timeout EXCEPT ![Cur] = FALSE]
    /\ unready' = [unready EXCEPT ![Cur] =
          IF chunk_no > 0 /\ CASTER_READY_BIT \notin event_bits[Cur]
          THEN @ \cup {chunk_no} ELSE @]
    /\ UNCHANGED <<response, enabled, cfg_strings, ready_at, chunk_no, written, sock_open, handlers, spc, sleep_suspended, sock, sock_mutex,
                   data_keep_alive, ka_reg, retry, sock_first, nmea, dcur, hres>>
    /\ UNCHANGED <<serverVars, lifeVars, clientVars>>

\* data_keep_alive = 0; return when CASTER_READY was not in the snapshot
HandlerKeepAlive ==
    /\ dpc = "keepalive"
    /\ data_keep_alive' = [data_keep_alive EXCEPT ![Cur] = 0]
    /\ IF HandlerForwards(hbits)
       THEN /\ dpc' = "lock"
            /\ UNCHANGED <<dcur, hres, hbits>>
       ELSE /\ hres' = [hres EXCEPT ![Cur] = Result(Cur, "not_ready")]
            /\ HandlerReturn
            /\ SnapshotGone
    /\ UNCHANGED <<data_timeout, response, enabled, cfg_strings, ready_at, chunk_no, written, unready, sock_open, handlers, wpc, spc, sleep_suspended, event_bits,
                   sock, sock_mutex, ka_reg, retry, sock_first, nmea>>
    /\ UNCHANGED <<serverVars, lifeVars, clientVars>>

\* xEventGroupSetBits(DATA_SENT_BIT) when it was clear; xSemaphoreTake
HandlerLock ==
    /\ dpc = "lock"
    /\ event_bits' = [event_bits EXCEPT ![Cur] =
          IF DATA_SENT_BIT \in hbits THEN @ ELSE @ \cup {DATA_SENT_BIT}]
    /\ IF sock_mutex[Cur] = "free"
       THEN /\ sock_mutex' = [sock_mutex EXCEPT ![Cur] = "handler"]
            /\ dpc' = "write"
            /\ UNCHANGED <<dcur, hres, hbits>>
       ELSE /\ hres' = [hres EXCEPT ![Cur] = Result(Cur, "no_lock")]
            /\ UNCHANGED sock_mutex
            /\ HandlerReturn
            /\ SnapshotGone
    /\ UNCHANGED <<data_timeout, response, enabled, cfg_strings, ready_at, chunk_no, written, unready, sock_open, handlers, wpc, spc, sleep_suspended, sock,
                   data_keep_alive, ka_reg, retry, sock_first, nmea>>
    /\ UNCHANGED <<serverVars, lifeVars, clientVars>>

\* under the lock: no socket
HandlerNoSocket ==
    /\ dpc = "write"
    /\ sock[Cur] < 0
    /\ hres' = [hres EXCEPT ![Cur] = Result(Cur, "no_socket")]
    /\ sock_mutex' = [sock_mutex EXCEPT ![Cur] = xSemaphoreGive(@)]
    /\ HandlerReturn
    /\ SnapshotGone
    /\ UNCHANGED <<data_timeout, response, enabled, cfg_strings, ready_at, chunk_no, written, unready, sock_open, handlers, wpc, spc, sleep_suspended, event_bits,
                   sock, data_keep_alive, ka_reg, retry, sock_first, nmea>>
    /\ UNCHANGED <<serverVars, lifeVars, clientVars>>

\* under the lock: write(sock, buffer, length) succeeds
HandlerWriteOk ==
    /\ dpc = "write"
    /\ sock[Cur] >= 0
    /\ hres' = [hres EXCEPT ![Cur] = Result(Cur, "sent")]
    /\ sock_first' = [sock_first EXCEPT ![Cur] = IF @ = <<>> THEN <<"CHUNK">> ELSE @]
    /\ sock_mutex' = [sock_mutex EXCEPT ![Cur] = xSemaphoreGive(@)]
    /\ written' = [written EXCEPT ![Cur] = WrittenChunk(@, chunk_no)]
    /\ HandlerReturn
    /\ SnapshotGone
    /\ UNCHANGED <<data_timeout, response, enabled, cfg_strings, ready_at, chunk_no, unready, sock_open, handlers, wpc, spc, sleep_suspended, event_bits,
                   sock, data_keep_alive, ka_reg, retry, nmea>>
    /\ UNCHANGED <<serverVars, lifeVars, clientVars>>

\* under the lock: write fails; destroy_socket(&sock), xSemaphoreGive
HandlerWriteFail ==
    /\ dpc = "write"
    /\ sock[Cur] >= 0
    /\ hres' = [hres EXCEPT ![Cur] = Result(Cur, "failed")]
    /\ sock' = [u \in Uplinks |->
          IF u \in WriteFailureDestroys(Cur) THEN destroy_socket(sock[u]) ELSE sock[u]]
    /\ sock_open' = [u \in Uplinks |->
          IF u \in WriteFailureDestroys(Cur)
          THEN DestroyedHandle(sock_open[u], sock[u])
          ELSE sock_open[u]]
    /\ sock_mutex' = [sock_mutex EXCEPT ![Cur] = xSemaphoreGive(@)]
    /\ dpc' = "resume"
    /\ UNCHANGED <<data_timeout, response, enabled, cfg_strings, ready_at, chunk_no, written, unready, handlers, wpc, spc, sleep_suspended, event_bits,
                   data_keep_alive, ka_reg, retry, sock_first, nmea, dcur, hbits>>
    /\ UNCHANGED <<serverVars, lifeVars, clientVars>>

\* vTaskResume(server_task): wakes the worker only if it is suspended
HandlerResume ==
    /\ dpc = "resume"
    /\ wpc' = [wpc EXCEPT ![Cur] = IF @ = "parked" THEN "woken" ELSE @]
    /\ HandlerReturn
    /\ SnapshotGone
    /\ UNCHANGED <<data_timeout, response, enabled, cfg_strings, ready_at, chunk_no, written, unready, sock_open, handlers, spc, sleep_suspended, event_bits, sock,
                   sock_mutex, data_keep_alive, ka_reg, retry, sock_first, nmea,
                   hres>>
    /\ UNCHANGED <<serverVars, lifeVars, clientVars>>

(***************************************************************************)
(* The uplinks as a system.                                                *)
(***************************************************************************)
\* the statics of the uplinks as the program starts; first is the number
\* of the last chunk before the first one (0 when the chunks are numbered,
\* -1 when they are not)
UplinkStart(active, first) ==
    /\ chunk_no = first
    /\ written = [u \in Uplinks |-> <<>>]
    /\ unready = [u \in Uplinks |-> {}]
    /\ ready_at = [u \in Uplinks |-> 0]
    /\ cfg_strings = [u \in Uplinks |-> {}]
    /\ enabled = active
    /\ handlers = <<>>
    /\ wpc = [u \in Uplinks |-> IF u \in active THEN "init" ELSE "off"]
    /\ spc = [u \in Uplinks |-> "none"]
    /\ sleep_suspended = [u \in Uplinks |-> FALSE]
    /\ event_bits = [u \in Uplinks |-> {}]
    /\ sock = [u \in Uplinks |-> -1]
    /\ sock_open = [u \in Uplinks |-> {}]
    /\ sock_mutex = [u \in Uplinks |-> "free"]
    /\ data_keep_alive = [u \in Uplinks |-> 0]
    /\ ka_reg = [u \in Uplinks |-> 0]
    /\ retry = [u \in Uplinks |-> 0]
    /\ sock_first = [u \in Uplinks |-> <<>>]
    /\ nmea = [u \in Uplinks |-> <<>>]
    /\ response = [u \in Uplinks |-> "none"]
    /\ data_timeout = [u \in Uplinks |-> FALSE]
    /\ dpc = "idle"
    /\ dcur = 0
    /\ hbits = {}
    /\ hres = [u \in Uplinks |-> NoResult]

\* the uplinks as the program starts, the chunks not numbered
UplinkInit(active) == UplinkStart(active, -1)

WorkerNext(u) ==
    \/ WorkerStart(u)
    \/ WorkerLoop(u)
    \/ WorkerWait(u)
    \/ WorkerResumeSleep(u)
    \/ WorkerConnect(u)
    \/ WorkerRequest(u)
    \/ WorkerResponse(u)
    \/ WorkerAnnounce(u)
    \/ WorkerReset(u)
    \/ WorkerReady(u)
    \/ WorkerSuspend(u)
    \/ WorkerDisconnect(u)
    \/ WorkerError(u)

SleepNext(u) ==
    \/ SleepStart(u)
    \/ SleepCheck(u)
    \/ SleepClear(u)
    \/ SleepLoad(u)
    \/ SleepStore(u)

DispatchNext ==
    \/ Dispatch
    \/ HandlerEntry
    \/ HandlerKeepAlive
    \/ HandlerLock
    \/ HandlerNoSocket
    \/ HandlerWriteOk
    \/ HandlerWriteFail
    \/ HandlerResume

UplinkNext ==
    \/ \E u \in Uplinks : WorkerNext(u)
    \/ \E u \in Uplinks : SleepNext(u)
    \/ DispatchNext

(***************************************************************************)
(* The socket client (socket_client.c): one task that keeps one outbound   *)
(* connection, and the two calls that start and stop it.                   *)
(***************************************************************************)
\* a close() that never happens
CloseHandleNever(open, s) == open

\* close() of descriptor s: the descriptors that stay open
CloseHandle(open, s) == open \ {s}

\* socket(): the lowest descriptor that is not open
NewHandle(open) == IF 1 \in open THEN 2 ELSE 1

\* a doubling that forgets the cap
BackoffUncapped(delay) == delay * 2

\* reconnect_delay after a failed resolve or connect
Backoff(delay) ==
    IF delay * 2 > MAX_RECONNECT_DELAY_MS THEN MAX_RECONNECT_DELAY_MS ELSE delay * 2

\* memset(&client_stats, 0, ...), start_time = time(NULL)
FreshStats(t) ==
    [connection_count |-> 0, bytes_sent |-> 0, bytes_received |-> 0,
     start_time |-> t, last_connect_time |-> 0, last_disconnect_time |-> 0]

\* the configurations socket_client_init can find: the client disabled, no
\* host, a port below and above the range, a usable one without and with a
\* connect message
ClientConfigs ==
    {[enabled |-> FALSE, host |-> "caster", port |-> 8880, msg |-> 0],
     [enabled |-> TRUE, host |-> "", port |-> 8880, msg |-> 0],
     [enabled |-> TRUE, host |-> "caster", port |-> 0, msg |-> 0],
     [enabled |-> TRUE, host |-> "caster", port |-> 65536, msg |-> 0],
     [enabled |-> TRUE, host |-> "caster", port |-> 8880, msg |-> 0],
     [enabled |-> TRUE, host |-> "caster", port |-> 8880, msg |-> 1]}

\* the configuration in force before the first call of socket_client_init
NoConfig == CHOOSE c \in ClientConfigs : ~c.enabled

\* a socket_client_init that accepts any port
ClientInitAnyPort(running, cfg, created) ==
    IF running THEN "ESP_ERR_INVALID_STATE"
    ELSE IF ~cfg.enabled THEN "ESP_OK"
    ELSE IF cfg.host = "" THEN "ESP_ERR_INVALID_ARG"
    ELSE IF ~created THEN "ESP_ERR_NO_MEM"
    ELSE "ESP_OK"

\* what socket_client_init returns; created: xTaskCreate returns pdPASS
ClientInitReturn(running, cfg, created) ==
    IF running THEN "ESP_ERR_INVALID_STATE"
    ELSE IF ~cfg.enabled THEN "ESP_OK"
    ELSE IF cfg.host = "" THEN "ESP_ERR_INVALID_ARG"
    ELSE IF cfg.port <= 0 \/ cfg.port > 65535 THEN "ESP_ERR_INVALID_ARG"
    ELSE IF ~created THEN "ESP_ERR_NO_MEM"
    ELSE "ESP_OK"

\* socket_client_init.  It is not called while a task that was told to stop
\* is still on its way out; the configuration is not edited while the client
\* runs.
ClientInitCall ==
    /\ client_running \/ cpc = "none"
    /\ cl_calls < MaxClientCalls
    /\ cl_calls' = cl_calls + 1
    /\ \E cfg \in IF client_running THEN {client_cfg} ELSE ClientConfigs,
          created \in BOOLEAN :
          LET ret == ClientInitReturn(client_running, cfg, created)
              reached == ~client_running /\ ret \in {"ESP_OK", "ESP_ERR_NO_MEM"}
                            /\ cfg.enabled
          IN  /\ cinit' = ret
              /\ client_cfg' = cfg
              /\ client_stats' = IF reached THEN FreshStats(now) ELSE client_stats
              /\ client_running' = IF client_running THEN TRUE
                                   ELSE reached /\ ret = "ESP_OK"
              /\ cpc' = IF reached /\ ret = "ESP_OK" THEN "loop" ELSE cpc
    /\ UNCHANGED <<client_socket, connected, reconnect_delay, cl_fail,
                   client_open, wifi_connected, now, cl_events, cl_data,
                   prev_delay, send_ret, wire>>
    /\ UNCHANGED cpc_other
    /\ UNCHANGED <<uplinkVars, serverVars, lifeVars>>

\* socket_client_deinit
ClientDeinitCall ==
    /\ client_running' = FALSE
    /\ UNCHANGED <<cpc, client_socket, connected, reconnect_delay, cl_fail,
                   client_stats, client_open, wifi_connected, now, cl_events,
                   cl_data, prev_delay, cinit, send_ret, wire, client_cfg,
                   cl_calls>>
    /\ UNCHANGED cpc_other
    /\ UNCHANGED <<uplinkVars, serverVars, lifeVars>>

\* a connect that sends its greeting whatever is configured
GreetsAlways(cfg) == TRUE

\* the test before the greeting: connect_msg && strlen(connect_msg) > 0
HasGreeting(cfg) == cfg.msg > 0

\* socket_client_disconnect
Disconnect ==
    /\ client_open' = IF client_socket >= 0
                      THEN CloseHandle(client_open, client_socket)
                      ELSE client_open
    /\ client_socket' = -1
    /\ connected' = FALSE

\* a socket_client_send_data that only reports a failed send()
SendDataNoDisconnect(n, ok) ==
    IF ~connected \/ client_socket < 0 \/ ~ok
    THEN UNCHANGED <<client_open, client_socket, connected, client_stats>>
    ELSE /\ UNCHANGED <<client_open, client_socket, connected>>
         /\ client_stats' = [client_stats EXCEPT !.bytes_sent = @ + n]

\* socket_client_send_data of n bytes: nothing without a connection, a
\* disconnect when send() fails, the sent-byte count otherwise
SendData(n, ok) ==
    IF ~connected \/ client_socket < 0
    THEN UNCHANGED <<client_open, client_socket, connected, client_stats>>
    ELSE IF ~ok
    THEN /\ Disconnect
         /\ client_stats' = [client_stats EXCEPT !.last_disconnect_time = now]
    ELSE /\ UNCHANGED <<client_open, client_socket, connected>>
         /\ client_stats' = [client_stats EXCEPT !.bytes_sent = @ + n]

\* what the connection has been given after a socket_client_send_data of
\* kind: nothing more without a connection or when send() fails
Sent(kind, ok) ==
    IF connected /\ client_socket >= 0 /\ ok THEN Append(wire, kind) ELSE wire

\* a socket_client_send_data that reports success whatever happened
SendDataReturnOk(conn, s, ok) == "ESP_OK"

\* what socket_client_send_data returns: conn and s are connected and
\* client_socket as the call finds them, ok is false when send() fails
SendDataReturn(conn, s, ok) ==
    IF ~conn \/ s < 0 THEN "ESP_ERR_INVALID_STATE"
    ELSE IF ~ok THEN "ESP_FAIL"
    ELSE "ESP_OK"

\* socket_client_send_uart_data(data, 1), called by another task between two
\* steps of the client task
ClientSendUartData ==
    /\ cl_data < MaxClientData
    /\ cl_data' = cl_data + 1
    /\ \E ok \in BOOLEAN :
          LET fails == connected /\ client_socket >= 0 /\ ~ok
          IN  /\ fails => cl_events < MaxClientEvents
              /\ cl_events' = IF fails THEN cl_events + 1 ELSE cl_events
              /\ SendData(1, ok)
              /\ send_ret' = SendDataReturn(connected, client_socket, ok)
              /\ wire' = Sent("data", ok)
    /\ UNCHANGED <<client_running, cpc, reconnect_delay, cl_fail,
                   wifi_connected, now, prev_delay, cinit, client_cfg,
                   cl_calls>>
    /\ UNCHANGED cpc_other
    /\ UNCHANGED <<uplinkVars, serverVars, lifeVars>>

\* while (client_running): the test, and the if (!connected) below it
ClientLoop ==
    /\ cpc = "loop"
    /\ IF ~client_running
       THEN /\ cpc' = "cleanup"
            /\ UNCHANGED <<reconnect_delay, prev_delay>>
       ELSE IF ~connected
       THEN /\ reconnect_delay' = RECONNECT_DELAY_MS
            /\ prev_delay' = 0
            /\ cpc' = IF wifi_connected THEN "connect" ELSE "wifi"
       ELSE /\ cpc' = "recv"
            /\ UNCHANGED <<reconnect_delay, prev_delay>>
    /\ UNCHANGED <<client_running, client_socket, connected, cl_fail,
                   client_stats, client_open, wifi_connected, now, cl_events,
                   cl_data, cinit, send_ret, wire, client_cfg,
                   cl_calls>>
    /\ UNCHANGED cpc_other
    /\ UNCHANGED <<uplinkVars, serverVars, lifeVars>>

\* a wait for the network that never looks at client_running
WifiWaitDeaf(running, wifi) == IF wifi THEN "connect" ELSE "wifi"

\* where one turn of the wait for the network leaves the task: the status
\* is read again after the delay and client_running is tested inside the loop
WifiWaitNext(running, wifi) ==
    IF ~running THEN "loop"
    ELSE IF wifi THEN "connect"
    ELSE "wifi"

\* socket_client_connect: one turn of the wait for the network
ClientWifiWait ==
    /\ cpc = "wifi"
    /\ cpc' = WifiWaitNext(client_running, wifi_connected)
    /\ UNCHANGED <<client_running, client_socket, connected, reconnect_delay,
                   cl_fail, client_stats, client_open, wifi_connected, now,
                   cl_events, cl_data, prev_delay, cinit, send_ret, wire, client_cfg,
                   cl_calls>>
    /\ UNCHANGED cpc_other
    /\ UNCHANGED <<uplinkVars, serverVars, lifeVars>>

\* while (client_running && !connected): the test, gethostbyname, socket()
ClientAttempt ==
    /\ cpc = "connect"
    /\ IF ~(client_running /\ ~connected)
       THEN /\ cpc' = "loop"
            /\ UNCHANGED <<client_socket, client_open, cl_fail, cl_events>>
       ELSE \/ /\ cl_events < MaxClientEvents
               /\ cl_events' = cl_events + 1
               /\ cl_fail' = "resolve"
               /\ cpc' = "backoff"
               /\ UNCHANGED <<client_socket, client_open>>
            \/ /\ cl_events < MaxClientEvents
               /\ cl_events' = cl_events + 1
               /\ cl_fail' = "socket"
               /\ client_socket' = -1
               /\ cpc' = "backoff"
               /\ UNCHANGED client_open
            \/ /\ client_socket' = NewHandle(client_open)
               /\ client_open' = client_open \cup {NewHandle(client_open)}
               /\ cpc' = "connecting"
               /\ UNCHANGED <<cl_fail, cl_events>>
    /\ UNCHANGED <<client_running, connected, reconnect_delay, client_stats,
                   wifi_connected, now, cl_data, prev_delay, cinit, send_ret, wire, client_cfg,
                   cl_calls>>
    /\ UNCHANGED cpc_other
    /\ UNCHANGED <<uplinkVars, serverVars, lifeVars>>

\* connect() and what follows it up to the connect message
ClientConnect ==
    /\ cpc = "connecting"
    /\ \/ /\ cl_events < MaxClientEvents
          /\ cl_events' = cl_events + 1
          /\ client_open' = CloseHandle(client_open, client_socket)
          /\ client_socket' = -1
          /\ cl_fail' = "connect"
          /\ cpc' = "backoff"
          /\ UNCHANGED <<connected, client_stats, reconnect_delay, prev_delay,
                         wire>>
       \/ /\ connected' = TRUE
          /\ client_stats' = [client_stats EXCEPT !.connection_count = @ + 1,
                                                  !.last_connect_time = now]
          /\ reconnect_delay' = RECONNECT_DELAY_MS
          /\ prev_delay' = 0
          /\ wire' = <<>>
          /\ cpc' = "greet"
          /\ UNCHANGED <<client_socket, client_open, cl_fail, cl_events>>
    /\ UNCHANGED <<client_running, wifi_connected, now, cl_data, cinit, send_ret,
                   client_cfg, cl_calls>>
    /\ UNCHANGED cpc_other
    /\ UNCHANGED <<uplinkVars, serverVars, lifeVars>>

\* vTaskDelay(reconnect_delay), then the doubling that follows a failed
\* resolve or connect (a failed socket() leaves the delay as it is)
ClientBackoff ==
    /\ cpc = "backoff"
    /\ prev_delay' = reconnect_delay
    /\ reconnect_delay' = IF cl_fail = "socket" THEN reconnect_delay
                          ELSE Backoff(reconnect_delay)
    /\ cpc' = "connect"
    /\ UNCHANGED <<client_running, client_socket, connected, cl_fail,
                   client_stats, client_open, wifi_connected, now, cl_events,
                   cl_data, cinit, send_ret, wire, client_cfg,
                   cl_calls>>
    /\ UNCHANGED cpc_other
    /\ UNCHANGED <<uplinkVars, serverVars, lifeVars>>

\* the connect message and its line end, when one is configured; then
\* socket_client_connect returns ESP_OK
ClientGreet ==
    /\ cpc = "greet"
    /\ IF ~HasGreeting(client_cfg)
       THEN UNCHANGED <<client_open, client_socket, connected, client_stats,
                        cl_events, wire>>
       ELSE \/ /\ SendData(client_cfg.msg + 2, TRUE)
               /\ wire' = Sent("greeting", TRUE)
               /\ UNCHANGED cl_events
            \/ /\ cl_events < MaxClientEvents
               /\ cl_events' = cl_events + 1
               /\ SendData(client_cfg.msg, FALSE)
               /\ UNCHANGED wire
            \/ /\ cl_events < MaxClientEvents
               /\ cl_events' = cl_events + 1
               /\ Disconnect
               /\ client_stats' =
                     [client_stats EXCEPT !.bytes_sent = @ + client_cfg.msg,
                                          !.last_disconnect_time = now]
               /\ wire' = Sent("message", TRUE)
    /\ cpc' = "recv"
    /\ UNCHANGED <<client_running, reconnect_delay, cl_fail, wifi_connected,
                   now, cl_data, prev_delay, cinit, send_ret, client_cfg,
                   cl_calls>>
    /\ UNCHANGED cpc_other
    /\ UNCHANGED <<uplinkVars, serverVars, lifeVars>>

\* recv() and the branch taken on its result
ClientRecv ==
    /\ cpc = "recv"
    /\ IF client_socket < 0
       THEN \* recv on no descriptor fails with EBADF
            /\ Disconnect
            /\ client_stats' = [client_stats EXCEPT !.last_disconnect_time = now]
            /\ cpc' = "loop"
            /\ UNCHANGED <<cl_events, cl_data, wire>>
       ELSE \/ \* the receive timeout ran out; nothing to send
               /\ cpc' = "loop"
               /\ UNCHANGED <<client_open, client_socket, connected,
                              client_stats, cl_events, cl_data, wire>>
            \/ \* the receive timeout ran out; serial data is sent
               /\ cl_data < MaxClientData
               /\ cl_data' = cl_data + 1
               /\ \/ /\ SendData(1, TRUE)
                     /\ wire' = Sent("data", TRUE)
                     /\ UNCHANGED cl_events
                  \/ /\ cl_events < MaxClientEvents
                     /\ cl_events' = cl_events + 1
                     /\ SendData(1, FALSE)
                     /\ UNCHANGED wire
               /\ cpc' = "loop"
            \/ \* a receive error, or the peer closed
               /\ cl_events < MaxClientEvents
               /\ cl_events' = cl_events + 1
               /\ Disconnect
               /\ client_stats' = [client_stats EXCEPT !.last_disconnect_time = now]
               /\ cpc' = "loop"
               /\ UNCHANGED <<cl_data, wire>>
            \/ \* data: counted and written to the serial port
               /\ cl_data < MaxClientData
               /\ cl_data' = cl_data + 1
               /\ client_stats' = [client_stats EXCEPT !.bytes_received = @ + 1]
               /\ cpc' = "uart"
               /\ UNCHANGED <<client_open, client_socket, connected, cl_events,
                              wire>>
    /\ UNCHANGED <<client_running, reconnect_delay, cl_fail, wifi_connected,
                   now, prev_delay, cinit, send_ret, client_cfg,
                   cl_calls>>
    /\ UNCHANGED cpc_other
    /\ UNCHANGED <<uplinkVars, serverVars, lifeVars>>

\* after received data: uart_read_bytes, the send of what it returned, and
\* the 10 ms delay
ClientUart ==
    /\ cpc = "uart"
    /\ \/ UNCHANGED <<client_open, client_socket, connected, client_stats,
                      cl_events, cl_data, wire>>
       \/ /\ cl_data < MaxClientData
          /\ cl_data' = cl_data + 1
          /\ \/ /\ SendData(1, TRUE)
                /\ wire' = Sent("data", TRUE)
                /\ UNCHANGED cl_events
             \/ /\ cl_events < MaxClientEvents
                /\ cl_events' = cl_events + 1
                /\ SendData(1, FALSE)
                /\ UNCHANGED wire
    /\ cpc' = "loop"
    /\ UNCHANGED <<client_running, reconnect_delay, cl_fail, wifi_connected,
                   now, prev_delay, cinit, send_ret, client_cfg,
                   cl_calls>>
    /\ UNCHANGED cpc_other
    /\ UNCHANGED <<uplinkVars, serverVars, lifeVars>>

\* after the loop: socket_client_disconnect, client_task_handle = NULL,
\* vTaskDelete(NULL)
ClientCleanup ==
    /\ cpc = "cleanup"
    /\ Disconnect
    /\ client_stats' = [client_stats EXCEPT !.last_disconnect_time = now]
    /\ cpc' = "none"
    /\ UNCHANGED <<client_running, reconnect_delay, cl_fail, wifi_connected,
                   now, cl_events, cl_data, prev_delay, cinit, send_ret, wire, client_cfg,
                   cl_calls>>
    /\ UNCHANGED cpc_other
    /\ UNCHANGED <<uplinkVars, serverVars, lifeVars>>

\* the station gains or loses its association
WifiChange ==
    /\ wifi_connected' = ~wifi_connected
    /\ wifi_connected => cl_events < MaxClientEvents
    /\ cl_events' = IF wifi_connected THEN cl_events + 1 ELSE cl_events
    /\ UNCHANGED <<client_running, cpc, client_socket, connected,
                   reconnect_delay, cl_fail, client_stats, client_open, now,
                   cl_data, prev_delay, cinit, send_ret, wire, client_cfg,
                   cl_calls>>
    /\ UNCHANGED cpc_other
    /\ UNCHANGED <<uplinkVars, serverVars, lifeVars>>

\* time(NULL) moves on
Tick ==
    /\ now < MaxClientTime
    /\ now' = now + 1
    /\ UNCHANGED <<client_running, cpc, client_socket, connected,
                   reconnect_delay, cl_fail, client_stats, client_open,
                   wifi_connected, cl_events, cl_data, prev_delay, cinit, send_ret, wire,
                   client_cfg, cl_calls>>
    /\ UNCHANGED cpc_other
    /\ UNCHANGED <<uplinkVars, serverVars, lifeVars>>

\* socket_client_init called after socket_client_deinit has returned, while
\* the task that was told to stop has not yet tested client_running: the
\* configuration is the one the task was started with
ClientInitEarly ==
    /\ ~client_running
    /\ cpc # "none"
    /\ cpc_other = "none"
    /\ cl_calls < MaxClientCalls
    /\ cl_calls' = cl_calls + 1
    /\ \E created \in BOOLEAN :
          LET ret == ClientInitReturn(client_running, client_cfg, created)
          IN  /\ cinit' = ret
              /\ client_stats' = FreshStats(now)
              /\ client_running' = (ret = "ESP_OK")
              /\ cpc_other' = IF ret = "ESP_OK" THEN "loop" ELSE "none"
    /\ UNCHANGED <<cpc, client_socket, connected, reconnect_delay, cl_fail,
                   client_open, client_cfg, wifi_connected, now, cl_events,
                   cl_data, prev_delay, send_ret, wire>>
    /\ UNCHANGED <<uplinkVars, serverVars, lifeVars>>

\* the scheduler switches between the two client tasks (they have the same
\* priority); a task's position is all it keeps between two steps
ClientSwitch ==
    /\ cpc_other # "none"
    /\ cpc' = cpc_other
    /\ cpc_other' = cpc
    /\ UNCHANGED <<client_running, client_socket, connected, reconnect_delay,
                   cl_fail, client_stats, client_open, client_cfg, cinit,
                   wifi_connected, now, cl_events, cl_data, cl_calls,
                   prev_delay, send_ret, wire>>
    /\ UNCHANGED <<uplinkVars, serverVars, lifeVars>>

\* the statics of socket_client.c as the program starts, the network having
\* met e adverse events before
ClientStart(e) ==
    /\ client_running = FALSE
    /\ cpc = "none"
    /\ client_socket = -1
    /\ connected = FALSE
    /\ reconnect_delay = RECONNECT_DELAY_MS
    /\ cl_fail = "none"
    /\ client_stats = FreshStats(0)
    /\ client_open = {}
    /\ wifi_connected = FALSE
    /\ now = 1
    /\ cl_events = e
    /\ cl_data = 0
    /\ prev_delay = 0
    /\ cinit = "none"
    /\ client_cfg = NoConfig
    /\ cl_calls = 0
    /\ send_ret = "none"
    /\ wire = <<>>
    /\ cpc_other = "none"

ClientOff == ClientStart(0)

ClientTaskNext ==
    \/ ClientLoop
    \/ ClientWifiWait
    \/ ClientAttempt
    \/ ClientConnect
    \/ ClientBackoff
    \/ ClientGreet
    \/ ClientRecv
    \/ ClientUart
    \/ ClientCleanup

ClientNext ==
    \/ ClientInitCall
    \/ ClientDeinitCall
    \/ ClientTaskNext
    \/ WifiChange
    \/ Tick

(***************************************************************************)
(* The socket server (socket_server.c): one task that accepts stream      *)
(* peers, receives datagrams, reads the peers and broadcasts the serial   *)
(* source's data to every peer of its table.                              *)
(***************************************************************************)
Slots == 1..MAX_CLIENTS

\* the addresses of the datagram peers
UdpPeers == {101, 102}

\* lengths of the datagrams the peers send
DatagramLens == {1}

\* memset(&clients[i], 0, sizeof(socket_client_t))
FreeClient ==
    [socket |-> 0, addr |-> 0, connected |-> FALSE,
     bytes_sent |-> 0, bytes_received |-> 0]

\* a slot as socket_tcp_accept and socket_udp_accept fill it
NewClient(fd, a) ==
    [socket |-> fd, addr |-> a, connected |-> TRUE,
     bytes_sent |-> 0, bytes_received |-> 0]

NoDgram == [addr |-> 0, len |-> 0]

Connected(table) == {i \in Slots : table[i].connected}

\* socket_server_get_client_count()
socket_server_get_client_count == Cardinality(Connected(clients))

\* a search that hands out the first slot when no slot is free
FreeSlotOrFirst(table) ==
    IF Connected(table) # Slots
    THEN CHOOSE i \in Slots \ Connected(table) :
            \A j \in Slots \ Connected(table) : i <= j
    ELSE 1

\* for (i = 0; i < MAX_CLIENTS; i++) if (!clients[i].connected): the first
\* slot that is not connected, 0 when every slot is connected
FreeSlot(table) ==
    IF Connected(table) # Slots
    THEN CHOOSE i \in Slots \ Connected(table) :
            \A j \in Slots \ Connected(table) : i <= j
    ELSE 0

\* the descriptor accept() returns: the lowest one that is not open
NewFd ==
    CHOOSE n \in 1..(MaxTcpPeers + 3) :
       /\ n \notin open_fds
       /\ \A m \in 1..(n - 1) : m \in open_fds

\* the first connected slot whose address equals a (memcmp), 0 when none
MatchSlot(table, a) ==
    LET same == {i \in Connected(table) : table[i].addr = a}
    IN  IF same # {}
        THEN CHOOSE i \in same : \A j \in same : i <= j
        ELSE 0

\* socket_udp_accept: the slot index it returns for peeked address a
UdpAcceptIndex(table, a) ==
    IF MatchSlot(table, a) # 0 THEN MatchSlot(table, a) ELSE FreeSlot(table)

\* socket_udp_accept: the table it leaves
UdpAcceptTable(table, a) ==
    IF MatchSlot(table, a) = 0 /\ FreeSlot(table) # 0
    THEN [table EXCEPT ![FreeSlot(table)] = NewClient(udp_server_socket, a)]
    ELSE table

\* socket_client_close(i) on one slot: acts only on a connected slot
ClosedSlot(c) == IF c.connected THEN FreeClient ELSE c

\* the descriptor socket_client_close(i) closes, if any
ClosedFds(c) ==
    IF c.connected /\ c.socket \notin {tcp_server_socket, udp_server_socket}
    THEN {c.socket}
    ELSE {}

\* the slots the clean-up loop calls socket_client_close for
CleanupTargets(table) ==
    {i \in Slots : ~table[i].connected /\ table[i].socket > 0}

\* lengths of the chunks uart_read_bytes hands to the broadcast
ChunkLens == {64}

\* send() / sendto() on a blocking socket: all n bytes, or -1
SendResult(n, ok) == IF ok THEN n ELSE -1

\* a broadcast that leaves the datagram slots out
SendToAllStreams(table, f, n) ==
    [i \in Slots |->
        IF table[i].connected /\ table[i].socket # udp_server_socket
        THEN IF SendResult(n, i # f) < 0
             THEN [table[i] EXCEPT !.connected = FALSE]
             ELSE [table[i] EXCEPT !.bytes_sent = @ + SendResult(n, i # f)]
        ELSE table[i]]

\* a broadcast that stops at the first failed send
SendToAllUntilFailure(table, f, n) ==
    [i \in Slots |->
        IF table[i].connected /\ (f = 0 \/ i <= f)
        THEN IF SendResult(n, i # f) < 0
             THEN [table[i] EXCEPT !.connected = FALSE]
             ELSE [table[i] EXCEPT !.bytes_sent = @ + SendResult(n, i # f)]
        ELSE table[i]]

\* socket_send_to_all_clients(data, n) with the send to slot f failing
\* (0: none): sendto for a datagram slot, send for a stream slot
SendToAll(table, f, n) ==
    [i \in Slots |->
        IF table[i].connected
        THEN IF SendResult(n, i # f) < 0
             THEN [table[i] EXCEPT !.connected = FALSE]
             ELSE [table[i] EXCEPT !.bytes_sent = @ + SendResult(n, i # f)]
        ELSE table[i]]

\* uart_read_bytes, then socket_send_to_all_clients when it returned data
UartToClients ==
    \/ /\ UNCHANGED <<clients, broadcasts, events_used>>
    \/ /\ broadcasts < MaxBroadcasts
       /\ broadcasts' = broadcasts + 1
       /\ \E n \in ChunkLens :
          \E f \in {0} \cup {i \in Connected(clients) : events_used < MaxPeerEvents} :
             /\ clients' = SendToAll(clients, f, n)
             /\ events_used' = IF f = 0 THEN events_used ELSE events_used + 1

\* a stream peer connects: its connection waits in the listen queue.  The
\* task sees the listen queue only in select(), so the arrival is placed there.
PeerConnect ==
    /\ srv_pc = "select"
    /\ backlog = 0
    /\ tcp_next <= MaxTcpPeers
    /\ backlog' = tcp_next
    /\ tcp_next' = tcp_next + 1
    /\ UNCHANGED <<clients, tcp_server_socket, udp_server_socket, open_fds,
                   udp_queue, srv_pc, read_fds, dgram, uart_rx, dgrams_sent,
                   events_used, broadcasts>>
    /\ UNCHANGED <<uplinkVars, clientVars, lifeVars>>

\* a datagram peer sends a datagram: it waits in the socket's queue.  The
\* task looks at the queue in select() and in the peeking recvfrom(), so the
\* arrival is placed before one of the two.
PeerDatagram ==
    /\ srv_pc \in {"select", "udp_accept"}
    /\ dgrams_sent < MaxDatagrams
    /\ Len(udp_queue) < MaxQueue
    /\ \E a \in UdpPeers, n \in DatagramLens :
          udp_queue' = Append(udp_queue, [addr |-> a, len |-> n])
    /\ dgrams_sent' = dgrams_sent + 1
    /\ UNCHANGED <<clients, tcp_server_socket, udp_server_socket, open_fds,
                   backlog, tcp_next, srv_pc, read_fds, dgram, uart_rx,
                   events_used, broadcasts>>
    /\ UNCHANGED <<uplinkVars, clientVars, lifeVars>>

\* FD_SET of the listening sockets and of every connected stream peer;
\* select() with a one second timeout.  At most one stream peer is readable.
ServerSelect ==
    /\ srv_pc = "select"
    /\ server_running
    /\ \E ev \in {0} \cup {i \in Connected(clients) :
                             /\ clients[i].socket # udp_server_socket
                             /\ events_used < MaxPeerEvents} :
          LET fds == (IF tcp_server_socket >= 0 /\ backlog # 0
                      THEN {tcp_server_socket} ELSE {})
                     \cup (IF udp_server_socket >= 0 /\ udp_queue # <<>>
                           THEN {udp_server_socket} ELSE {})
                     \cup (IF ev # 0 THEN {clients[ev].socket} ELSE {})
          IN  /\ read_fds' = fds
              /\ events_used' = IF ev = 0 THEN events_used ELSE events_used + 1
              /\ srv_pc' = IF fds = {} THEN "timeout" ELSE "accept"
    /\ UNCHANGED <<clients, tcp_server_socket, udp_server_socket, open_fds,
                   backlog, tcp_next, udp_queue, dgram, uart_rx, dgrams_sent,
                   broadcasts>>
    /\ UNCHANGED <<uplinkVars, clientVars, lifeVars>>

\* activity == 0: the source's data is read and broadcast; continue
ServerTimeout ==
    /\ srv_pc = "timeout"
    /\ UartToClients
    /\ srv_pc' = "select"
    /\ UNCHANGED <<tcp_server_socket, udp_server_socket, open_fds, backlog,
                   tcp_next, udp_queue, read_fds, dgram, uart_rx, dgrams_sent>>
    /\ UNCHANGED <<uplinkVars, clientVars, lifeVars>>

\* socket_tcp_accept(tcp_server_socket) when the listening socket is readable
ServerTcpAccept ==
    /\ srv_pc = "accept"
    /\ IF tcp_server_socket >= 0 /\ tcp_server_socket \in read_fds
       THEN /\ backlog' = 0
            /\ IF FreeSlot(clients) # 0
               THEN /\ clients' = [clients EXCEPT ![FreeSlot(clients)] =
                                      NewClient(NewFd, backlog)]
                    /\ open_fds' = open_fds \cup {NewFd}
               ELSE \* close(client_socket)
                    UNCHANGED <<clients, open_fds>>
       ELSE UNCHANGED <<clients, open_fds, backlog>>
    /\ srv_pc' = "udp"
    /\ UNCHANGED <<tcp_server_socket, udp_server_socket, tcp_next, udp_queue,
                   read_fds, dgram, uart_rx, dgrams_sent, events_used,
                   broadcasts>>
    /\ UNCHANGED <<uplinkVars, clientVars, lifeVars>>

\* recvfrom(udp_server_socket, buffer, ...) when the datagram socket is
\* readable: the first queued datagram is taken
ServerUdpRecv ==
    /\ srv_pc = "udp"
    /\ IF udp_server_socket >= 0 /\ udp_server_socket \in read_fds
       THEN /\ udp_queue' = Tail(udp_queue)
            /\ IF Head(udp_queue).len > 0
               THEN /\ dgram' = Head(udp_queue)
                    /\ srv_pc' = "udp_accept"
               ELSE /\ dgram' = NoDgram
                    /\ srv_pc' = "reads"
       ELSE /\ srv_pc' = "reads"
            /\ UNCHANGED <<udp_queue, dgram>>
    /\ UNCHANGED <<clients, tcp_server_socket, udp_server_socket, open_fds,
                   backlog, tcp_next, read_fds, uart_rx, dgrams_sent,
                   events_used, broadcasts>>
    /\ UNCHANGED <<uplinkVars, clientVars, lifeVars>>

\* socket_udp_accept(udp_server_socket): recvfrom(..., MSG_PEEK, ...) reads
\* the address of the datagram that is now first in the queue and blocks
\* while the queue is empty; then clients[client_idx].bytes_received += len
\* and uart_write_bytes(buffer, len) for the datagram taken before
ServerUdpAccept ==
    /\ srv_pc = "udp_accept"
    /\ udp_queue # <<>>
    /\ LET source_addr == Head(udp_queue).addr
           client_idx == UdpAcceptIndex(clients, source_addr)
           table == UdpAcceptTable(clients, source_addr)
       IN  clients' = IF client_idx # 0
                      THEN [table EXCEPT ![client_idx].bytes_received = @ + dgram.len]
                      ELSE table
    /\ uart_rx' = uart_rx + dgram.len
    /\ dgram' = NoDgram
    /\ srv_pc' = "reads"
    /\ UNCHANGED <<tcp_server_socket, udp_server_socket, open_fds, backlog,
                   tcp_next, udp_queue, read_fds, dgrams_sent, events_used,
                   broadcasts>>
    /\ UNCHANGED <<uplinkVars, clientVars, lifeVars>>

\* what recv() on a readable stream peer returns: data, 0 or an error
RecvResults == {"data", "eof", "error"}

\* a read loop that does not leave the datagram slots out
ReadableAny(table) ==
    {i \in Connected(table) : table[i].socket \in read_fds}

\* the slots the read loop calls recv() for
Readable(table) ==
    {i \in Connected(table) :
        table[i].socket # udp_server_socket /\ table[i].socket \in read_fds}

\* recv() on every readable stream peer: data is counted and written to the
\* serial sink, a closed or failed peer is marked
ServerReads ==
    /\ srv_pc = "reads"
    /\ IF Readable(clients) = {}
       THEN UNCHANGED <<clients, uart_rx>>
       ELSE \E r \in RecvResults :
               /\ clients' = [i \in Slots |->
                     IF i \in Readable(clients)
                     THEN IF r = "data"
                          THEN [clients[i] EXCEPT !.bytes_received = @ + 1]
                          ELSE [clients[i] EXCEPT !.connected = FALSE]
                     ELSE clients[i]]
               /\ uart_rx' = IF r = "data"
                             THEN uart_rx + Cardinality(Readable(clients))
                             ELSE uart_rx
    /\ srv_pc' = "cleanup"
    /\ UNCHANGED <<tcp_server_socket, udp_server_socket, open_fds, backlog,
                   tcp_next, udp_queue, read_fds, dgram, dgrams_sent,
                   events_used, broadcasts>>
    /\ UNCHANGED <<uplinkVars, clientVars, lifeVars>>

\* socket_client_close(i) for every slot that is not connected and has a
\* socket handle
ServerCleanup ==
    /\ srv_pc = "cleanup"
    /\ clients' = [i \in Slots |->
          IF i \in CleanupTargets(clients) THEN ClosedSlot(clients[i])
          ELSE clients[i]]
    /\ open_fds' = open_fds \ UNION {ClosedFds(clients[i]) : i \in CleanupTargets(clients)}
    /\ srv_pc' = "broadcast"
    /\ UNCHANGED <<tcp_server_socket, udp_server_socket, backlog, tcp_next,
                   udp_queue, read_fds, dgram, uart_rx, dgrams_sent,
                   events_used, broadcasts>>
    /\ UNCHANGED <<uplinkVars, clientVars, lifeVars>>

\* the source's data is read and broadcast at the end of the iteration
ServerBroadcast ==
    /\ srv_pc = "broadcast"
    /\ UartToClients
    /\ srv_pc' = "select"
    /\ read_fds' = {}
    /\ UNCHANGED <<tcp_server_socket, udp_server_socket, open_fds, backlog,
                   tcp_next, udp_queue, dgram, uart_rx, dgrams_sent>>
    /\ UNCHANGED <<uplinkVars, clientVars, lifeVars>>

\* the statics of socket_server.c as the program starts; p is the next
\* stream peer to connect and d the datagrams sent before
ServerIdle(p, d) ==
    /\ clients = [i \in Slots |-> FreeClient]
    /\ tcp_server_socket = -1
    /\ udp_server_socket = -1
    /\ open_fds = {}
    /\ backlog = 0
    /\ tcp_next = p
    /\ udp_queue = <<>>
    /\ srv_pc = "off"
    /\ read_fds = {}
    /\ dgram = NoDgram
    /\ uart_rx = 0
    /\ dgrams_sent = d
    /\ events_used = 0
    /\ broadcasts = 0
    /\ server_running = FALSE
    /\ clients_mutex = "NULL"
    /\ init_call = [enabled |-> FALSE, ret |-> "none"]
    /\ srv_calls = 0
    /\ deinit_pc = "idle"

\* the server is not started
ServerOff == ServerIdle(1, 0)

\* the state socket_server_init leaves with both listeners enabled: the
\* table zeroed, both sockets bound, the task at the top of its loop
ServerStarted ==
    /\ clients = [i \in Slots |-> FreeClient]
    /\ tcp_server_socket = 1
    /\ udp_server_socket = 2
    /\ open_fds = {1, 2}
    /\ backlog = 0
    /\ tcp_next = 1
    /\ udp_queue = <<>>
    /\ srv_pc = "select"
    /\ read_fds = {}
    /\ dgram = NoDgram
    /\ uart_rx = 0
    /\ dgrams_sent = 0
    /\ events_used = 0
    /\ broadcasts = 0
    /\ server_running = TRUE
    /\ clients_mutex = "valid"
    /\ init_call = [enabled |-> TRUE, ret |-> "ESP_OK"]
    /\ srv_calls = 1
    /\ deinit_pc = "idle"

\* socket(): the lowest descriptor that is not in open
FreeFd(open) ==
    CHOOSE n \in 1..(MaxTcpPeers + 3) :
       /\ n \notin open
       /\ \A m \in 1..(n - 1) : m \in open

\* the steps of socket_server_init that can fail
InitFailures == {"none", "mutex", "tcp", "udp", "task"}

\* what socket_server_init returns when step fail fails
ServerInitReturn(running, en, fail) ==
    IF running THEN "ESP_ERR_INVALID_STATE"
    ELSE IF ~en THEN "ESP_OK"
    ELSE CASE fail = "mutex" -> "ESP_ERR_NO_MEM"
           [] fail \in {"tcp", "udp"} -> "ESP_FAIL"
           [] fail = "task" -> "ESP_ERR_NO_MEM"
           [] OTHER -> "ESP_OK"

\* socket_server_init with both listeners configured.  It is not called
\* while a task that was told to stop still exists.
ServerInitCall ==
    /\ server_running \/ srv_pc = "off"
    /\ deinit_pc = "idle"
    /\ srv_calls < MaxServerCalls
    /\ srv_calls' = srv_calls + 1
    /\ \E en \in BOOLEAN, fail \in InitFailures :
          LET tcp == FreeFd(open_fds)
              udp == FreeFd(open_fds \cup {tcp})
          IN  /\ init_call' = [enabled |-> en,
                               ret |-> ServerInitReturn(server_running, en, fail)]
              /\ IF server_running \/ ~en
                 THEN UNCHANGED <<clients, tcp_server_socket, udp_server_socket,
                                  open_fds, srv_pc, server_running, clients_mutex>>
                 ELSE CASE fail = "mutex" ->
                             /\ clients_mutex' = "NULL"
                             /\ UNCHANGED <<clients, tcp_server_socket,
                                            udp_server_socket, open_fds, srv_pc,
                                            server_running>>
                        [] fail = "tcp" ->
                             /\ clients' = [i \in Slots |-> FreeClient]
                             /\ tcp_server_socket' = -1
                             /\ clients_mutex' = "deleted"
                             /\ UNCHANGED <<udp_server_socket, open_fds, srv_pc,
                                            server_running>>
                        [] fail = "udp" ->
                             /\ clients' = [i \in Slots |-> FreeClient]
                             /\ tcp_server_socket' = -1
                             /\ udp_server_socket' = -1
                             /\ clients_mutex' = "deleted"
                             /\ UNCHANGED <<open_fds, srv_pc, server_running>>
                        [] fail = "task" ->
                             \* socket_server_deinit: the flag, no task to wait
                             \* for, the lock
                             /\ clients' = [i \in Slots |-> FreeClient]
                             /\ tcp_server_socket' = tcp
                             /\ udp_server_socket' = udp
                             /\ open_fds' = open_fds \cup {tcp, udp}
                             /\ server_running' = FALSE
                             /\ clients_mutex' = "NULL"
                             /\ UNCHANGED srv_pc
                        [] OTHER ->
                             /\ clients' = [i \in Slots |-> FreeClient]
                             /\ tcp_server_socket' = tcp
                             /\ udp_server_socket' = udp
                             /\ open_fds' = open_fds \cup {tcp, udp}
                             /\ server_running' = TRUE
                             /\ clients_mutex' = "valid"
                             /\ srv_pc' = "select"
    /\ UNCHANGED <<backlog, tcp_next, udp_queue, read_fds, dgram, uart_rx,
                   dgrams_sent, events_used, broadcasts, deinit_pc>>
    /\ UNCHANGED <<uplinkVars, clientVars>>

\* socket_server_deinit on a running server: the flag is cleared and the
\* caller sleeps 100 ms
ServerDeinitCall ==
    /\ server_running
    /\ deinit_pc = "idle"
    /\ server_running' = FALSE
    /\ deinit_pc' = "delay"
    /\ UNCHANGED <<clients_mutex, init_call, srv_calls>>
    /\ UNCHANGED <<serverVars, uplinkVars, clientVars>>

\* socket_server_deinit after the 100 ms: vSemaphoreDelete, clients_mutex = NULL
ServerDeinitDelete ==
    /\ deinit_pc = "delay"
    /\ clients_mutex' = "NULL"
    /\ deinit_pc' = "idle"
    /\ UNCHANGED <<server_running, init_call, srv_calls>>
    /\ UNCHANGED <<serverVars, uplinkVars, clientVars>>

\* while (server_running) is false: the task leaves its loop
ServerLoopExit ==
    /\ srv_pc = "select"
    /\ ~server_running
    /\ srv_pc' = "closing"
    /\ UNCHANGED <<clients, tcp_server_socket, udp_server_socket, open_fds,
                   backlog, tcp_next, udp_queue, read_fds, dgram, uart_rx,
                   dgrams_sent, events_used, broadcasts>>
    /\ UNCHANGED <<uplinkVars, clientVars, lifeVars>>

\* after the loop: socket_client_close(i) for every slot, close of the two
\* listening sockets, server_task_handle = NULL, vTaskDelete(NULL)
ServerShutdown ==
    /\ srv_pc = "closing"
    /\ clients' = [i \in Slots |-> ClosedSlot(clients[i])]
    /\ open_fds' = (open_fds \ UNION {ClosedFds(clients[i]) : i \in Slots})
                      \ {tcp_server_socket, udp_server_socket}
    /\ tcp_server_socket' = -1
    /\ udp_server_socket' = -1
    /\ srv_pc' = "off"
    /\ UNCHANGED <<backlog, tcp_next, udp_queue, read_fds, dgram, uart_rx,
                   dgrams_sent, events_used, broadcasts>>
    /\ UNCHANGED <<uplinkVars, clientVars, lifeVars>>

\* the positions at which the task takes the table lock whatever the data
LockPositions == {"select", "reads", "closing"}

\* xSemaphoreTake on a lock that socket_server_deinit has deleted: one of
\* the outcomes is that the task stops for good (the other, that it goes on,
\* is the step the task takes anyway)
ServerLockFault ==
    /\ srv_pc \in LockPositions
    /\ clients_mutex # "valid"
    /\ srv_pc' = "crashed"
    /\ UNCHANGED <<clients, tcp_server_socket, udp_server_socket, open_fds,
                   backlog, tcp_next, udp_queue, read_fds, dgram, uart_rx,
                   dgrams_sent, events_used, broadcasts>>
    /\ UNCHANGED <<uplinkVars, clientVars, lifeVars>>

ServerTaskNext ==
    \/ ServerSelect
    \/ ServerTimeout
    \/ ServerTcpAccept
    \/ ServerUdpRecv
    \/ ServerUdpAccept
    \/ ServerReads
    \/ ServerCleanup
    \/ ServerBroadcast

PeerNext ==
    \/ PeerConnect
    \/ PeerDatagram

ServerInit == UplinkInit({}) /\ ServerStarted /\ ClientOff

ServerNext == ServerTaskNext \/ PeerNext

ServerSpec == ServerInit /\ [][ServerNext]_vars

\* The server task is scheduled whenever it can run; the peers send what
\* they like, or nothing.
FairServerSpec == ServerSpec /\ WF_vars(ServerTaskNext)

\* the task's steps when it can be stopped
ServerLifeSteps ==
    \/ ServerTaskNext
    \/ ServerLoopExit
    \/ ServerShutdown
    \/ ServerLockFault

\* The socket server from the start of the program: socket_server_init and
\* socket_server_deinit are called, one stream peer connects and two
\* datagrams arrive.
LifeInit ==
    UplinkInit({}) /\ ClientOff /\ ServerIdle(MaxTcpPeers, MaxDatagrams - 2)

LifeNext ==
    \/ ServerInitCall
    \/ ServerDeinitCall
    \/ ServerDeinitDelete
    \/ ServerLifeSteps
    \/ PeerNext

LifeSpec == LifeInit /\ [][LifeNext]_vars

\* the task is scheduled whenever it can run and the caller of
\* socket_server_deinit wakes from its delay
FairLifeSpec ==
    /\ LifeSpec
    /\ WF_vars(ServerLifeSteps)
    /\ WF_vars(ServerDeinitDelete)

\* the socket client alone: no uplink enabled, the socket server not started
ClientInit == UplinkInit({}) /\ ServerOff /\ ClientOff

ClientSpec == ClientInit /\ [][ClientNext]_vars

\* The client task is scheduled whenever it can run.  Two adverse events
\* are left to happen in this specification.
FairClientInit ==
    UplinkInit({}) /\ ServerOff /\ ClientStart(MaxClientEvents - 2)

FairClientSpec ==
    /\ FairClientInit
    /\ [][ClientNext]_vars
    /\ WF_vars(ClientTaskNext)

\* The socket client with socket_client_init also called while a task that
\* was told to stop still exists.  One adverse event is left to happen.
RestartInit ==
    UplinkInit({}) /\ ServerOff /\ ClientStart(MaxClientEvents - 1)

RestartNext == ClientNext \/ ClientInitEarly \/ ClientSwitch

RestartSpec == RestartInit /\ [][RestartNext]_vars

\* The socket client and a task that calls socket_client_send_uart_data.
\* Three adverse events are left to happen in this specification.
SendInit ==
    UplinkInit({}) /\ ServerOff /\ ClientStart(MaxClientEvents - 3)

SendNext == ClientNext \/ ClientSendUartData

SendSpec == SendInit /\ [][SendNext]_vars

\* the socket client after a successful socket_client_init, the station
\* associated and e adverse events met before
ClientStarted(e) ==
    /\ client_running = TRUE
    /\ cpc = "loop"
    /\ client_socket = -1
    /\ connected = FALSE
    /\ reconnect_delay = RECONNECT_DELAY_MS
    /\ cl_fail = "none"
    /\ client_stats = FreshStats(1)
    /\ client_open = {}
    /\ wifi_connected = TRUE
    /\ now = 1
    /\ cl_events = e
    /\ cl_data = MaxClientData
    /\ prev_delay = 0
    /\ cinit = "ESP_OK"
    /\ client_cfg = CHOOSE c \in ClientConfigs :
                       ClientInitReturn(FALSE, c, TRUE) = "ESP_OK" /\ c.enabled /\ c.msg > 0
    /\ cl_calls = 1
    /\ send_ret = "none"
    /\ wire = <<>>
    /\ cpc_other = "none"

\* One uplink and the started socket client side by side.  The keep-alive
\* worker takes no step, the client is not stopped, and two adverse events
\* are left to the client's network.
ConnInit ==
    UplinkInit({"SRV"}) /\ ServerOff /\ ClientStarted(MaxClientEvents - 2)

ConnNext ==
    \/ \E u \in Uplinks : WorkerNext(u)
    \/ DispatchNext
    \/ ClientLoop
    \/ ClientAttempt
    \/ ClientConnect
    \/ ClientBackoff
    \/ ClientGreet
    \/ ClientRecv

ConnSpec == ConnInit /\ [][ConnNext]_vars

\* One uplink, its worker and the dispatch callback; the first MaxChunks
\* chunks of the source are numbered.  The keep-alive worker takes no step.
ChunkInit == UplinkStart({"SRV"}, 0) /\ ServerOff /\ ClientOff

ChunkNext ==
    \/ \E u \in Uplinks : WorkerNext(u)
    \/ DispatchNext

ChunkSpec == ChunkInit /\ [][ChunkNext]_vars

\* one uplink enabled, the socket server not started
Init == UplinkInit({"SRV"}) /\ ServerOff /\ ClientOff

Next == UplinkNext

Spec == Init /\ [][Next]_vars

\* the steps of a running callback (the arrival of a chunk is the source's)
HandlerSteps ==
    \/ HandlerEntry
    \/ HandlerKeepAlive
    \/ HandlerLock
    \/ HandlerNoSocket
    \/ HandlerWriteOk
    \/ HandlerWriteFail
    \/ HandlerResume

\* Every task that can run does run: the workers and a running callback are
\* scheduled (weak fairness); the keep-alive worker, which the uplink worker
\* suspends and resumes over and over, gets its time slice whenever it is
\* resumed often enough (strong fairness).  The source may fall silent.
FairSpec ==
    /\ Init
    /\ [][Next]_vars
    /\ \A u \in Uplinks : WF_vars(WorkerNext(u))
    /\ \A u \in Uplinks : SF_vars(SleepNext(u))
    /\ WF_vars(HandlerSteps)

\* As FairSpec, and the source never falls silent: a new chunk is dispatched
\* whenever the previous dispatch call has ended.
FairDataSpec == FairSpec /\ WF_vars(Dispatch)

\* Both uplinks enabled.  The keep-alive workers take no step in this
\* specification (they are never scheduled); DATA_READY is then cleared only
\* by the worker's clear-on-exit wait.
DuoInit == UplinkInit(Uplinks) /\ ServerOff /\ ClientOff

DuoNext ==
    \/ \E u \in Uplinks : WorkerNext(u)
    \/ DispatchNext

DuoSpec == DuoInit /\ [][DuoNext]_vars

(***************************************************************************)
(* Claims about the uplinks.                                               *)
(***************************************************************************)
\* what the claims call B's state: socket handle, event bits, worker position
UplinkState(u) == <<sock[u], event_bits[u], wpc[u]>>

\* the dispatch call ends in this step
DispatchEnds == dpc # "idle" /\ dpc' = "idle"

\* C1: a write failure in A's callback (the failed write, the teardown and
\* the resume of A's worker) changes nothing of B's socket handle, event bits
\* or worker position; and in a dispatch call in which A's write failed, B's
\* callback has run too and has taken the path its own snapshot and socket
\* select: the chunk was dropped only without CASTER_READY or without a
\* socket, never for want of the lock.
C1_FailureIsolated ==
    [][ /\ (HandlerWriteFail \/ HandlerResume) =>
              \A b \in Uplinks \ {Cur} : UplinkState(b)' = UplinkState(b)
        /\ DispatchEnds =>
              \A a \in Uplinks, b \in Uplinks :
                 (a # b /\ hres'[a].res = "failed"
                        /\ \E i \in 1..Len(handlers') : handlers'[i] = b) =>
                    hres'[b].res \in {"not_ready", "no_socket", "sent", "failed"}
      ]_vars

\* C1 witness: a dispatch call in which the first callback's write failed and
\* the second callback wrote the chunk
C1_Witness ==
    /\ dpc = "idle"
    /\ Len(handlers) = 2
    /\ hres[handlers[1]].res = "failed"
    /\ hres[handlers[2]].res = "sent"

\* C2: a write failure in the callback is always followed by the worker
\* leaving its parked state: CASTER_READY is cleared and the worker is back
\* at the top of its loop.
C2_FailureWakesWorker ==
    \A u \in Uplinks :
       (hres[u].res = "failed") ~>
          (CASTER_READY_BIT \notin event_bits[u] /\ wpc[u] = "loop")

\* C3: a chunk is written to the socket only at a moment when DATA_READY and
\* CASTER_READY are both set.
C3_ForwardOnlyWhenReady ==
    \A u \in Uplinks :
       hres[u].res = "sent" =>
          {DATA_READY_BIT, CASTER_READY_BIT} \subseteq hres[u].bits

\* the worker starts a connection in this step
StartsConnection(u) ==
    /\ wpc[u] = "connect"
    /\ wpc'[u] # "connect"
    /\ Len(nmea'[u]) > Len(nmea[u])

\* C4: once the silence counter has reached the threshold, DATA_READY is
\* eventually cleared (or a chunk arrives and resets the counter); and while
\* DATA_READY stays cleared for silence the worker starts no connection.
C4_SilenceStopsReconnects ==
    /\ \A u \in Uplinks :
          (data_keep_alive[u] >= NTRIP_KEEP_ALIVE_THRESHOLD) ~>
             (DATA_READY_BIT \notin event_bits[u]
                \/ data_keep_alive[u] < NTRIP_KEEP_ALIVE_THRESHOLD)
    /\ [][\A u \in Uplinks : StartsConnection(u) => ~data_timeout[u]]_vars

\* the callback of u returns in this step
CallbackReturns(u) ==
    /\ dpc \notin {"idle", "entry"}
    /\ Cur = u
    /\ dpc' \in {"idle", "entry"}

\* C5: when the callback returns, DATA_READY is set and the silence counter
\* is zero; a worker that was blocked waiting for data has been woken.
C5_ChunkRearmsDataReady ==
    [][\A u \in Uplinks :
          CallbackReturns(u) =>
             /\ DATA_READY_BIT \in event_bits'[u]
             /\ data_keep_alive'[u] = 0
             /\ wpc'[u] # "blocked"
      ]_vars

\* a response that is missing, malformed or carries no recognized OK status
BadResponse(r) == r \in {"", "garbage", "HTTP/1.1 401 Unauthorized"}

\* the kinds of the announcements of the current loop iteration
Announced(u) == {nmea[u][i][4] : i \in 1..Len(nmea[u])}

\* C6: after a bad handshake response the worker is on its way back to the
\* top of the loop (where the socket has been destroyed), CASTER_READY is not
\* set, the retry level has not been reset, and neither CONNECTED nor
\* DISCONNECTED has been announced.
C6_BadHandshakeRetries ==
    \A u \in Uplinks :
       BadResponse(response[u]) =>
          /\ wpc[u] \in {"error", "loop"}
          /\ wpc[u] = "loop" => sock[u] = -1
          /\ CASTER_READY_BIT \notin event_bits[u]
          /\ retry[u] # 0
          /\ Announced(u) \cap {"CONNECTED", "DISCONNECTED"} = {}

\* C6 witness: back at the top of the loop after a 401 answer
C6_Witness ==
    /\ response["SRV"] = "HTTP/1.1 401 Unauthorized"
    /\ wpc["SRV"] = "loop"
    /\ retry["SRV"] = MaxRetryLevel

\* C7: once the worker has sent the request, the first data written to the
\* socket is the SOURCE request with the endpoint's password and mountpoint;
\* CONNECTED (with the endpoint's tag) is announced before the retry reset,
\* the reset is done before CASTER_READY is set, and the worker parks only
\* with CASTER_READY set.
C7_HandshakeThenReady ==
    \A u \in Uplinks :
       /\ wpc[u] \in {"response", "announce", "reset", "ready", "suspend", "parked"} =>
             sock_first[u] = <<"SOURCE", Config(u).password, Config(u).mountpoint,
                               "Source-Agent", NTRIP_SERVER_NAME, "">>
       /\ wpc[u] \in {"reset", "ready", "suspend", "parked"} =>
             nmea[u][Len(nmea[u])] = <<"$PESP", "NTRIP", u, "CONNECTED">>
       /\ wpc[u] \in {"ready", "suspend", "parked"} => retry[u] = 0
       /\ wpc[u] = "ready" => CASTER_READY_BIT \notin event_bits[u]
       /\ wpc[u] \in {"suspend", "parked"} => CASTER_READY_BIT \in event_bits[u]

\* C16: after a failure on the way to a connection (the worker is at
\* _error) and after a failed write of a chunk (the callback is about to
\* resume the worker), the worker of that uplink comes to start another
\* connection attempt, as long as chunks keep arriving.
C16_WorkerNeverGivesUp ==
    \A u \in Uplinks :
       (wpc[u] = "error" \/ (dpc = "resume" /\ Cur = u)) ~> (wpc[u] = "connect")

\* C23: the chunks written to an uplink's sockets are, in the order of the
\* writes, chunks the source has emitted, in the source's order and each at
\* most once; and a chunk that arrived with CASTER_READY clear is never
\* written, whatever connection the uplink makes later.
C23_WritesAreSubsequence ==
    \A u \in Uplinks :
       /\ \A i \in 1..Len(written[u]) :
             /\ written[u][i] \in 1..MaxChunks
             /\ chunk_no > 0 => written[u][i] <= chunk_no
             /\ written[u][i] \notin unready[u]
       /\ \A i \in 1..Len(written[u]), j \in 1..Len(written[u]) :
             i < j => written[u][i] < written[u][j]

\* C23 witness: the first chunk woke the worker, the second was written, the
\* write of the third failed, the fourth arrived while the uplink was
\* reconnecting and the fifth was written to the new connection
C23_Witness ==
    /\ written["SRV"] = <<2, 5>>
    /\ unready["SRV"] = {1, 4}
    /\ dpc = "idle"

\* the positions at which the worker's next step assigns, writes, reads or
\* destroys the socket handle
WorkerAtSocket == {"connect", "request", "response", "error"}

\* the worker of u accesses the socket handle in this step
WorkerSocketStep(u) == wpc[u] \in WorkerAtSocket /\ wpc'[u] # wpc[u]

\* the callback of u accesses the socket handle in this step
HandlerSocketStep(u) == dpc = "write" /\ Cur = u /\ dpc' # dpc

\* C24: the worker's assignment of a new handle, its handshake write and
\* read and its teardown, and the callback's write and teardown, are each
\* made by a thread that holds the uplink's socket lock; the worker is never
\* at one of its accesses while the callback is at its own.
C24_SocketAccessUnderLock ==
    [][\A u \in Uplinks :
          /\ HandlerSocketStep(u) => sock_mutex[u] = "handler"
          /\ WorkerSocketStep(u) => sock_mutex[u] = "worker"
          /\ ~(dpc = "write" /\ Cur = u /\ wpc[u] \in WorkerAtSocket)
      ]_vars

\* the positions at which the worker's next step is network I/O of a
\* connection attempt: resolve and connect, the request, the response
AttemptIO == {"connect", "request", "response"}

\* C25: the worker resolves, connects and handshakes only in steps taken with
\* DATA_READY set; a worker that finds DATA_READY clear at the top of its
\* loop announces WAITING and waits for data instead.
C25_NetworkOnlyWithData ==
    [][\A u \in Uplinks :
          /\ (wpc[u] \in AttemptIO /\ wpc'[u] # wpc[u]) =>
                DATA_READY_BIT \in event_bits[u]
          /\ (wpc[u] = "loop" /\ wpc'[u] # wpc[u]
                  /\ DATA_READY_BIT \notin event_bits[u]) =>
                /\ wpc'[u] = "wait"
                /\ nmea'[u] = <<<<"$PESP", "NTRIP", u, "WAITING">>>>
      ]_vars

\* the worker of u emits an announcement in this step
Emits(u) == nmea'[u] # nmea[u] /\ nmea'[u] # <<>>

\* the kind of the announcement before the last one of u's iteration
KindBeforeLast(seq) == IF Len(seq) > 1 THEN seq[Len(seq) - 1][4] ELSE "none"

\* C22: every announcement of an uplink carries that uplink's tag; CONNECTED
\* is emitted only right after the CONNECTING of the same attempt,
\* DISCONNECTED only by the worker that was woken from its park, right after
\* the CONNECTED of that connection (so never twice for one CONNECTED), and
\* WAITING only by a worker that has just found DATA_READY clear.
C22_AnnouncementsFollowState ==
    [][\A u \in Uplinks :
          /\ \A i \in 1..Len(nmea'[u]) :
                /\ nmea'[u][i][1] = "$PESP" /\ nmea'[u][i][2] = "NTRIP"
                /\ nmea'[u][i][3] = u
                /\ nmea'[u][i][4] \in {"WAITING", "CONNECTING", "CONNECTED", "DISCONNECTED"}
          /\ Emits(u) =>
                LET kind == nmea'[u][Len(nmea'[u])][4]
                    before == KindBeforeLast(nmea'[u])
                IN  /\ kind = "CONNECTED" =>
                          /\ before = "CONNECTING"
                          /\ nmea'[u] = Append(nmea[u], nmea'[u][Len(nmea'[u])])
                    /\ kind = "DISCONNECTED" =>
                          /\ before = "CONNECTED"
                          /\ wpc[u] = "woken"
                          /\ nmea'[u] = Append(nmea[u], nmea'[u][Len(nmea'[u])])
                    /\ kind = "WAITING" =>
                          /\ DATA_READY_BIT \notin event_bits[u]
                          /\ wpc[u] = "loop" /\ wpc'[u] = "wait"
                          /\ Len(nmea'[u]) = 1
          /\ (wpc[u] = "loop" /\ wpc'[u] = "resume_sleep") =>
                DATA_READY_BIT \in event_bits[u] /\ nmea'[u] = <<>>
      ]_vars

\* C22 witness: SRV2 has announced WAITING, CONNECTING, CONNECTED and
\* DISCONNECTED in one turn of its loop while SRV has announced CONNECTED
C22_Witness ==
    /\ nmea["SRV2"] = <<<<"$PESP", "NTRIP", "SRV2", "WAITING">>,
                         <<"$PESP", "NTRIP", "SRV2", "CONNECTING">>,
                         <<"$PESP", "NTRIP", "SRV2", "CONNECTED">>,
                         <<"$PESP", "NTRIP", "SRV2", "DISCONNECTED">>>>
    /\ Len(nmea["SRV"]) >= 2
    /\ nmea["SRV"][Len(nmea["SRV"])] = <<"$PESP", "NTRIP", "SRV", "CONNECTED">>

\* a numbered chunk has been written to u's socket since CASTER_READY was
\* last set
WrittenSinceReady(u) == Len(written[u]) > ready_at[u]

\* C31: when no callback is running, DATA_SENT is set for an uplink only if a
\* chunk has been written to its socket since CASTER_READY was last set; and
\* the step in which the woken worker handles a disconnect clears
\* CASTER_READY and DATA_SENT together.
C31_EverSentMeansWritten ==
    /\ [](\A u \in Uplinks :
            (chunk_no > 0 /\ dpc = "idle" /\ DATA_SENT_BIT \in event_bits[u])
               => WrittenSinceReady(u))
    /\ [][\A u \in Uplinks :
            (wpc[u] = "woken" /\ wpc'[u] # "woken") =>
               event_bits'[u] \cap {CASTER_READY_BIT, DATA_SENT_BIT} = {}]_vars

\* the positions of the worker from the step past the data check to _error
WorkerOnAttempt ==
    {"connect", "request", "response", "announce", "reset", "ready",
     "suspend", "parked", "woken"}

\* the positions of the worker at the top of its loop and in the wait for data
WorkerAtTop == {"loop", "wait", "blocked"}

\* the keep-alive worker is suspended, or has not yet run to the
\* vTaskSuspend(NULL) it starts with
KeepAliveParked(u) == sleep_suspended[u] \/ spc[u] \in {"none", "start"}

\* C32: the keep-alive worker starts by suspending itself, takes no step of
\* its loop while it is suspended and is resumed by nobody but the worker at
\* its step past the data check; it is not suspended while the worker is between
\* that step and _error; and it is parked while the worker is at the top of
\* its loop or waits for data.
C32_KeepAliveFollowsWorker ==
    /\ [][\A u \in Uplinks :
            /\ (spc[u] = "start" /\ spc'[u] # "start") => sleep_suspended'[u]
            /\ (spc[u] \notin {"none", "start"} /\ spc'[u] # spc[u]) =>
                  ~sleep_suspended[u]
            /\ (data_keep_alive'[u] > data_keep_alive[u]
                  \/ (DATA_READY_BIT \in event_bits[u] /\ spc'[u] # spc[u]
                      /\ DATA_READY_BIT \notin event_bits'[u])) =>
                  ~KeepAliveParked(u)
            /\ (sleep_suspended[u] /\ ~sleep_suspended'[u]) =>
                  wpc[u] = "resume_sleep"
            /\ (wpc[u] = "resume_sleep" /\ wpc'[u] # "resume_sleep") =>
                  ~sleep_suspended'[u]
        ]_vars
    /\ [](\A u \in Uplinks :
            /\ wpc[u] \in WorkerOnAttempt => ~sleep_suspended[u]
            /\ wpc[u] \in WorkerAtTop => KeepAliveParked(u))

\* the positions of the worker before the strings of an attempt are allocated
WorkerBeforeAttempt == {"loop", "wait", "blocked", "resume_sleep", "connect"}

\* nothing of an attempt is left: no handle, no open socket, no string
NothingHeld(u) ==
    /\ sock[u] = -1
    /\ sock_open[u] = {}
    /\ cfg_strings[u] = {}

\* C34: every failure of an attempt (a string not allocated, resolve,
\* connect, request write, response read, bad status) and every disconnect
\* takes the worker to _error; the step at _error leaves no socket handle and
\* no allocated string and takes the worker to the top of its loop; the
\* strings are released by that step only; and before the next attempt
\* allocates its strings nothing of the last one is held.
C34_FailureReleasesAll ==
    /\ [][\A u \in Uplinks :
            /\ (wpc[u] = "connect" /\ wpc'[u] # "connect") =>
                  /\ wpc'[u] = IF cfg_strings'[u] = ConfigStrings /\ sock'[u] >= 0
                               THEN "request" ELSE "error"
                  /\ cfg_strings'[u] # ConfigStrings => sock'[u] = sock[u]
            /\ (wpc[u] = "request" /\ wpc'[u] # "request") =>
                  wpc'[u] \in {"response", "error"}
            /\ (wpc[u] = "response" /\ wpc'[u] # "response") =>
                  wpc'[u] = IF HandshakeOk(response'[u]) THEN "announce" ELSE "error"
            /\ (wpc[u] = "woken" /\ wpc'[u] # "woken") => wpc'[u] = "error"
            /\ (wpc[u] = "error" /\ wpc'[u] # "error") =>
                  wpc'[u] = "loop" /\ NothingHeld(u)'
            /\ (cfg_strings[u] # {} /\ cfg_strings'[u] # cfg_strings[u]) =>
                  wpc[u] = "error"
        ]_vars
    /\ [](\A u \in Uplinks : wpc[u] \in WorkerBeforeAttempt => NothingHeld(u))

\* the worker is back at the top of its loop after a disconnect, with
\* nothing of the connection left
C34_Witness ==
    /\ wpc["SRV"] = "loop"
    /\ Len(nmea["SRV"]) = 3
    /\ nmea["SRV"][3][4] = "DISCONNECTED"
    /\ NothingHeld("SRV")

\* the dispatch thread is running u's callback
InCallback(u) == dpc # "idle" /\ Cur = u

\* C35: a worker that has ended at start-up (no socket lock, or no working
\* buffer) stays ended; its uplink never has CASTER_READY set nor a socket;
\* its callback, if it was registered, never goes on to the lock, the write
\* or the resume of the worker; and no step of that callback changes the
\* socket handle, the event bits or the worker position of the other uplink.
C35_StartFailureEndsOnlyWorker ==
    /\ [](\A u \in Uplinks :
            wpc[u] = "dead" =>
               /\ CASTER_READY_BIT \notin event_bits[u]
               /\ sock[u] = -1 /\ sock_open[u] = {}
               /\ hres[u].res \in {"none", "not_ready"}
               /\ InCallback(u) => dpc \in {"entry", "keepalive"})
    /\ [][\A u \in Uplinks :
            wpc[u] = "dead" =>
               /\ wpc'[u] = "dead"
               /\ (InCallback(u) /\ <<dpc, dcur>>' # <<dpc, dcur>>) =>
                     \A b \in Uplinks \ {u} : UplinkState(b)' = UplinkState(b)
        ]_vars

\* SRV's worker ended without its buffer and its callback has dropped a
\* chunk that SRV2's callback wrote to SRV2's caster
C35_Witness ==
    /\ wpc["SRV"] = "dead"
    /\ dpc = "idle"
    /\ hres["SRV"].res = "not_ready"
    /\ hres["SRV2"].res = "sent"

\* C36: the socket lock of an uplink is held only by its callback between
\* the take and the step after it (no socket, write, failed write), so it is
\* free whenever the callback is not running and when the callback goes on
\* to resume the worker; the take never blocks the callback: from the
\* position of the take the callback always has a step, which leads to the
\* write with the lock or to the end of this callback without it; and a
\* callback that did not get the lock has only dropped its own chunk: the
\* dispatch goes on with the next callback.
C36_LockReleasedOnEveryPath ==
    /\ [](\A u \in Uplinks :
            /\ sock_mutex[u] \in {"free", "handler"}
            /\ sock_mutex[u] = "handler" => (dpc = "write" /\ Cur = u))
    /\ [](dpc = "lock" => ENABLED HandlerLock)
    /\ [][dpc = "lock" =>
            \/ dpc' = "write" /\ sock_mutex'[Cur] = "handler" /\ dcur' = dcur
            \/ /\ hres'[Cur].res = "no_lock"
               /\ sock_mutex' = sock_mutex /\ sock' = sock
               /\ IF dcur < Len(handlers)
                  THEN dpc' = "entry" /\ dcur' = dcur + 1
                  ELSE dpc' = "idle"
            \/ UNCHANGED <<dpc, dcur, sock_mutex>>
        ]_vars

\* the write has failed and the callback stands before vTaskResume with the
\* lock given back
C36_Witness ==
    /\ dpc = "resume"
    /\ hres[Cur].res = "failed"
    /\ sock_mutex[Cur] = "free"

(***************************************************************************)
(* Claims about the socket server.                                         *)
(***************************************************************************)
\* accept() is about to return a connection while every slot is connected
AcceptsWhenFull ==
    /\ srv_pc = "accept"
    /\ tcp_server_socket \in read_fds
    /\ Connected(clients) = Slots

\* C8: the table keeps its MAX_CLIENTS slots and never has more than
\* MAX_CLIENTS connected ones; a stream connection accepted while every slot
\* is connected is taken from the listen queue and its socket closed (no
\* descriptor stays open), and the table is left as it was.
C8_TableBounded ==
    [][ /\ DOMAIN clients' = 1..MAX_CLIENTS
        /\ socket_server_get_client_count' <= MAX_CLIENTS
        /\ (AcceptsWhenFull /\ ServerTcpAccept) =>
              /\ clients' = clients
              /\ open_fds' = open_fds
              /\ backlog' = 0
      ]_vars

\* C8 witness: every stream peer has connected and been accepted, no peer
\* has been marked, and every slot is connected: one connection at least was
\* refused
C8_Witness ==
    /\ Connected(clients) = Slots
    /\ tcp_next = MaxTcpPeers + 1
    /\ backlog = 0
    /\ events_used = 0
    /\ srv_pc = "udp"
    /\ Cardinality(open_fds) = MAX_CLIENTS + 2 - Cardinality({i \in Slots : clients[i].socket = udp_server_socket})

\* C9: a datagram whose sender owns no slot, handled while every slot is
\* connected, changes no slot and is not written to the serial sink.
C9_FullTableDropsDatagram ==
    [][ ( /\ ServerUdpAccept
          /\ Connected(clients) = Slots
          /\ MatchSlot(clients, dgram.addr) = 0 ) =>
            /\ clients' = clients
            /\ uart_rx' = uart_rx
      ]_vars

\* C10: no two connected datagram slots carry the same address, and the
\* length of a handled datagram is added to the received-byte count of the
\* slot that carries the datagram's own address and of no other slot.
C10_OneSlotPerDatagramPeer ==
    [][ /\ \A i \in Connected(clients'), j \in Connected(clients') :
              ( /\ clients'[i].socket = udp_server_socket
                /\ clients'[j].socket = udp_server_socket
                /\ clients'[i].addr = clients'[j].addr ) => i = j
        /\ ServerUdpAccept =>
              \A i \in Slots :
                 /\ clients'[i].bytes_received # clients[i].bytes_received =>
                       clients'[i].addr = dgram.addr
                 /\ (clients'[i].connected /\ clients'[i].addr = dgram.addr) =>
                       clients'[i].bytes_received >= dgram.len
      ]_vars

\* the step is a broadcast of a chunk of the source
BroadcastStep == broadcasts' = broadcasts + 1

\* C11: in a broadcast of an n-byte chunk every slot that is connected at
\* the start of the pass is sent the chunk: its sent-byte counter grows by
\* exactly n (64), or its send failed and it is marked; nothing else of the
\* table changes.
C11_BroadcastReachesEverySlot ==
    [][BroadcastStep =>
          \E n \in ChunkLens :
             \A i \in Slots :
                IF clients[i].connected
                THEN \/ clients'[i] = [clients[i] EXCEPT !.bytes_sent = @ + n]
                     \/ clients'[i] = [clients[i] EXCEPT !.connected = FALSE]
                ELSE clients'[i] = clients[i]
      ]_vars

\* C11 witness: ten connected slots, a datagram slot among them, have each
\* been sent the 64-byte chunk
C11_Witness ==
    /\ broadcasts = 1
    /\ \A i \in Slots : clients[i].connected /\ clients[i].bytes_sent = 64
    /\ \E i \in Slots : clients[i].socket = udp_server_socket
    /\ \E i \in Slots : clients[i].socket # udp_server_socket

Listening == {tcp_server_socket, udp_server_socket}

\* the slot holds the handle of an accepted socket that is still open
HoldsOpenHandle(c) == c.socket \in open_fds \ Listening

\* C26: the clean-up step of an iteration leaves every slot that is not
\* connected cleared, the handle it held closed; a slot is given to a new
\* peer only when it holds no open handle of an earlier peer; and every
\* open accepted socket is the handle of some slot.
C26_MarkedSlotsClosed ==
    [][ /\ ServerCleanup =>
              \A i \in Slots :
                 ~clients[i].connected =>
                    /\ clients'[i] = FreeClient
                    /\ clients[i].socket \notin open_fds' \ Listening
        /\ \A i \in Slots :
              (~clients[i].connected /\ clients'[i].connected) =>
                 ~HoldsOpenHandle(clients[i])
        /\ \A fd \in open_fds' \ Listening' :
              \E i \in Slots : clients'[i].socket = fd
      ]_vars

\* C27: when the server handles a datagram it has received, a slot claimed
\* in that step is keyed by the datagram's own sender, and the only
\* received-byte counter that changes is the one of the slot keyed by that
\* sender, which grows by the datagram's length.
C27_DatagramOwnSender ==
    [][ServerUdpAccept =>
          \A i \in Slots :
             /\ (~clients[i].connected /\ clients'[i].connected) =>
                   clients'[i].addr = dgram.addr
             /\ clients'[i].bytes_received # clients[i].bytes_received =>
                   /\ clients'[i].addr = dgram.addr
                   /\ clients'[i].bytes_received =
                         (IF clients[i].connected THEN clients[i].bytes_received ELSE 0)
                            + dgram.len
      ]_vars

\* C28: an iteration of the server loop that has left the readiness wait
\* comes back to the top of the loop, whatever the peers do or do not send.
C28_LoopBlocksOnlyInSelect ==
    (srv_pc # "select") ~> (srv_pc = "select")

\* the step is a call of socket_server_init
ServerInitStep == srv_calls' = srv_calls + 1

\* the connected slots that belong to datagram peers
DatagramSlots(table) ==
    {i \in Connected(table) : table[i].socket = udp_server_socket}

\* C33: a slot that is connected for a datagram peer is, after any step of
\* the server or of a peer, still connected with the same handle and the
\* same address, unless the step is a broadcast in which a send failed, and
\* then the slot is only marked and keeps its address.
C33_DatagramSlotPersists ==
    [][\A i \in DatagramSlots(clients) :
          \/ /\ clients'[i].connected
             /\ clients'[i].socket = clients[i].socket
             /\ clients'[i].addr = clients[i].addr
          \/ /\ srv_pc \in {"timeout", "broadcast"}
             /\ events_used' = events_used + 1
             /\ clients'[i] = [clients[i] EXCEPT !.connected = FALSE]
      ]_vars

\* a datagram peer's slot has taken two datagrams and is still connected
\* while a stream peer has been accepted and has been marked after a failure
C33_Witness ==
    \E i \in DatagramSlots(clients), j \in Slots :
       /\ clients[i].bytes_received >= 2
       /\ ~clients[j].connected
       /\ clients[j].socket > 0
       /\ clients[j].socket # udp_server_socket
       /\ srv_pc = "select"

\* C17: socket_server_init returns ESP_ERR_INVALID_STATE on a running server
\* and changes nothing; on a disabled server it returns ESP_OK and creates no
\* socket and no task; after a return of ESP_FAIL or ESP_ERR_NO_MEM the
\* server is not running, no task exists and no descriptor the call opened
\* is still open.
C17_ServerInitReturn ==
    [][ServerInitStep =>
          /\ server_running =>
                /\ init_call'.ret = "ESP_ERR_INVALID_STATE"
                /\ UNCHANGED <<serverVars, server_running, clients_mutex>>
          /\ (~server_running /\ ~init_call'.enabled) =>
                /\ init_call'.ret = "ESP_OK"
                /\ UNCHANGED <<serverVars, server_running>>
          /\ init_call'.ret \in {"ESP_FAIL", "ESP_ERR_NO_MEM"} =>
                /\ ~server_running'
                /\ srv_pc' = srv_pc
                /\ open_fds' \subseteq open_fds
                /\ tcp_server_socket' \notin open_fds'
                /\ udp_server_socket' \notin open_fds'
      ]_vars

\* C18: once socket_server_deinit has cleared the running flag of a server
\* whose task exists, the task ends, and then no descriptor of the server is
\* open: not the listening sockets, not a socket it accepted.
C18_DeinitStopsServer ==
    (~server_running /\ srv_pc # "off") ~> (srv_pc = "off" /\ open_fds = {})

\* C37: whenever the server task stands before a take of the table lock that
\* it makes whatever the data (the read loop of an iteration, the
\* socket_client_close calls after the loop), the lock exists; and the task
\* is never stopped by a take of a deleted lock.
C37_TaskLocksBeforeDelete ==
    /\ srv_pc \in {"reads", "closing"} => clients_mutex = "valid"
    /\ srv_pc # "crashed"

(***************************************************************************)
(* Claims about the socket client.                                         *)
(***************************************************************************)
\* the delay between two connection attempts elapses in this step
DelayApplied == cpc = "backoff" /\ cpc' = "connect"

LinkFails ==
    /\ cpc \in {"greet", "recv", "uart"}
    /\ connected /\ client_socket >= 0
    /\ cl_events' = cl_events + 1
    /\ wifi_connected' = wifi_connected

\* C15: a receive error, a zero-length receive or a failed send of the
\* connected socket client closes the socket, sets connected to false and
\* records the time; at the top of its loop a running, unconnected client
\* enters the connect loop, and the connect loop is left only connected or
\* stopped.
C15_LinkFailureReconnects ==
    [][ /\ LinkFails =>
              /\ client_socket' = -1
              /\ client_socket \notin client_open'
              /\ ~connected'
              /\ client_stats'.last_disconnect_time = now
        /\ (ClientLoop /\ client_running /\ ~connected) =>
              cpc' \in {"wifi", "connect"}
        /\ (ClientAttempt /\ client_running /\ ~connected) =>
              cpc' \in {"backoff", "connecting"}
        /\ (ClientBackoff \/ (ClientWifiWait /\ client_running)) =>
              cpc' \in {"wifi", "connect"}
      ]_vars

\* C15 witness: a client that had a connection and lost it is between two
\* attempts to connect again
C15_Witness ==
    /\ client_running
    /\ cpc = "backoff"
    /\ client_stats.connection_count >= 1
    /\ client_stats.last_disconnect_time = now
    /\ ~connected /\ client_socket = -1

\* the step is a call of socket_client_init
ClientInitStep == cl_calls' = cl_calls + 1

\* C19: socket_client_init returns ESP_ERR_INVALID_STATE on a running
\* client, ESP_OK on a disabled one, ESP_ERR_INVALID_ARG for an empty host or
\* a port outside 1..65535 and ESP_ERR_NO_MEM only without a new task; a call
\* that does not return ESP_OK for an enabled client starts no task and
\* leaves the running flag as it found it.
C19_ClientInitReturn ==
    [][ClientInitStep =>
          /\ client_running => cinit' = "ESP_ERR_INVALID_STATE"
          /\ (~client_running /\ ~client_cfg'.enabled) => cinit' = "ESP_OK"
          /\ (~client_running /\ client_cfg'.enabled /\
                (client_cfg'.host = "" \/ client_cfg'.port \notin 1..65535)) =>
                cinit' = "ESP_ERR_INVALID_ARG"
          /\ (cinit' # "ESP_OK" \/ ~client_cfg'.enabled) =>
                /\ cpc' = cpc
                /\ client_running' = client_running
          /\ cinit' \in {"ESP_ERR_INVALID_ARG", "ESP_ERR_NO_MEM"} => ~client_running'
          /\ (cinit' = "ESP_OK" /\ client_cfg'.enabled) =>
                client_running' /\ cpc' = "loop"
      ]_vars

\* C19 witness: a call has found a port above 65535
C19_Witness ==
    /\ cinit = "ESP_ERR_INVALID_ARG"
    /\ client_cfg.port > 65535
    /\ ~client_running
    /\ cpc = "none"

\* C20: once socket_client_deinit has cleared the running flag of a client
\* whose task exists, the task ends, with the socket closed and connected
\* false.
C20_DeinitStopsClient ==
    (~client_running /\ cpc # "none")
        ~> (cpc = "none" /\ client_socket = -1 /\ ~connected /\ client_open = {})

\* C20 witness: the task has left its loop while connected and is about to
\* close the socket
C20_Witness ==
    /\ ~client_running
    /\ cpc = "cleanup"
    /\ connected
    /\ client_socket \in client_open

\* min(2 x delay, 60000 ms)
DoubledCapped(delay) ==
    IF 2 * delay < MAX_RECONNECT_DELAY_MS THEN 2 * delay ELSE MAX_RECONNECT_DELAY_MS

\* C29: the first failed attempt of a run is followed by a delay of 5000 ms;
\* after the delay of any failed attempt (failed resolve, failed socket(),
\* failed connect) the delay kept for the next one is min(2 x delay, 60000);
\* a successful connect puts the delay back to 5000 ms.
C29_DelayDoublesAfterEveryFailure ==
    [][ /\ DelayApplied =>
              /\ prev_delay = 0 => reconnect_delay = RECONNECT_DELAY_MS
              /\ reconnect_delay' = DoubledCapped(reconnect_delay)
        /\ (~connected /\ connected') => reconnect_delay' = RECONNECT_DELAY_MS
      ]_vars

\* how many entries of seq are of kind
CountOf(seq, kind) == Cardinality({i \in DOMAIN seq : seq[i] = kind})

\* C30: the step after a successful connect leaves the connection, if it is
\* still up, with the greeting as the only thing sent when a greeting is
\* configured and with nothing sent when it is empty; the greeting is sent
\* only by that step, as the first thing of a connection; serial data is
\* sent on a connection with a configured greeting only after the greeting.
C30_GreetingOncePerConnect ==
    [][ /\ (cpc = "greet" /\ cpc' # "greet") =>
              IF client_cfg.msg > 0
              THEN connected' => wire' = <<"greeting">>
              ELSE wire' = <<>>
        /\ CountOf(wire', "greeting") > CountOf(wire, "greeting") =>
              cpc = "greet" /\ wire = <<>> /\ client_cfg.msg > 0
        /\ (CountOf(wire', "data") > CountOf(wire, "data") /\ client_cfg.msg > 0) =>
              wire # <<>> /\ wire[1] = "greeting"
                          /\ CountOf(wire', "greeting") = 1
      ]_vars

\* serial data has followed the greeting on a second connection
C30_Witness ==
    /\ client_stats.connection_count = 2
    /\ connected
    /\ wire = <<"greeting", "data">>

\* C38: there are never two socket client tasks.
C38_OneClientTask == ~(cpc # "none" /\ cpc_other # "none")

\* C39: the step in which socket_client_connect returns ESP_OK (the task goes
\* from the connect message to its receive) leaves the client connected: the
\* connected flag is true and client_socket names an open handle, also when
\* sending the connect message failed.
C39_ConnectOkMeansConnected ==
    [][(cpc = "greet" /\ cpc' = "recv") =>
          (connected' /\ client_socket' >= 0 /\ client_socket' \in client_open')]_vars

\* C21: a call of socket_client_send_uart_data on a client that is not
\* connected returns ESP_ERR_INVALID_STATE and changes nothing of the client;
\* a call whose send() fails returns ESP_FAIL and leaves the socket closed
\* and connected false; any other call returns ESP_OK and has added the
\* number of bytes sent to the sent-byte counter, the connection kept.
C21_SendUartDataReturn ==
    [][ClientSendUartData =>
          /\ (~connected \/ client_socket < 0) =>
                /\ send_ret' = "ESP_ERR_INVALID_STATE"
                /\ UNCHANGED <<client_running, cpc, client_socket, connected,
                               reconnect_delay, client_stats, client_open>>
          /\ (connected /\ client_socket >= 0) =>
                send_ret' \in {"ESP_FAIL", "ESP_OK"}
          /\ send_ret' = "ESP_FAIL" =>
                /\ client_socket \notin client_open'
                /\ client_socket' = -1
                /\ ~connected'
                /\ client_stats'.bytes_sent = client_stats.bytes_sent
          /\ send_ret' = "ESP_OK" =>
                /\ client_stats'.bytes_sent = client_stats.bytes_sent + 1
                /\ connected' /\ client_socket' = client_socket
                /\ client_open' = client_open
      ]_vars

\* C21 witness: a call on the connected client has failed and torn the
\* connection down
C21_Witness ==
    /\ send_ret = "ESP_FAIL"
    /\ client_stats.connection_count = 1
    /\ ~connected /\ client_socket = -1 /\ client_open = {}
    /\ client_stats.last_disconnect_time = now
    /\ cpc = "recv"

(***************************************************************************)
(* Claims about every connection.                                          *)
(***************************************************************************)
\* C14: an uplink and the socket client each have at most one socket handle
\* open at any time, the one their handle variable names, and none when a
\* connection attempt is about to be started: the handle of a failed
\* connection has been closed by then.
C14_OneHandlePerConnection ==
    /\ \A u \in Uplinks :
          /\ Cardinality(sock_open[u]) <= 1
          /\ sock[u] >= 0 => sock_open[u] = {sock[u]}
          /\ wpc[u] = "connect" => sock_open[u] = {}
    /\ Cardinality(client_open) <= 1
    /\ client_socket >= 0 => client_open = {client_socket}
    /\ cpc = "connect" => client_open = {}

\* C14 witness: the uplink, whose write failed after the handshake, and the
\* socket client, which lost a connection, are both about to connect again
C14_Witness ==
    /\ wpc["SRV"] = "connect"
    /\ hres["SRV"].res = "failed"
    /\ cpc = "connect"
    /\ client_stats.connection_count >= 1
    /\ client_stats.last_disconnect_time > 0

=============================================================================
